---- MODULE Spec2Model ----
(***************************************************************************)
(* HealthChain / HealthQueue+ : the queue engine.                          *)
(*                                                                         *)
(* Two providers of the same operation set exist in the repository:        *)
(*   - the reducer-only provider (src/unnamed/part_005): every operation   *)
(*     is one dispatch to queueReducer, applied atomically;                *)
(*   - the store-backed provider (src/unnamed/part_004): every operation   *)
(*     reads the rendered state, awaits a write to the durable store and   *)
(*     then dispatches; calls may overlap at the await points.             *)
(* The priority engine (score, comparator, token format) lives in          *)
(* src/scripts/create-healthchain-tables.sql, lines 186-387.               *)
(*                                                                         *)
(* Conventions.  An optional field (receiptId?, forwardedAt?, ...) is the  *)
(* empty tuple when undefined and a one-element tuple when set.  The clock *)
(* (Date.now()) is counted in whole minutes.  Scores are kept times ten,   *)
(* so that the factors 0.1 and 0.5 stay integers.  uuidv4() is a counter.  *)
(* Free-text fields the engine never inspects (name, symptom, medicines)   *)
(* are left out of the records.                                            *)
(***************************************************************************)
EXTENDS Integers, Sequences, FiniteSets, TLC

VARIABLES
  patients,       \* QueueState.patients      : sequence of Patient
  prescriptions,  \* QueueState.prescriptions : sequence of Prescription
  receipts,       \* QueueState.receipts      : sequence of VisitReceipt
  tokenCounters,  \* QueueState.tokenCounters : Department -> Nat
  now,            \* the clock, Date.now(), in minutes
  nextUuid,       \* number of uuidv4() values handed out so far
  last,           \* the last operation called: its name, arguments, toast, return value
  issued,         \* history: per department, the counters carried by issued tokens, in issue order
  store,          \* the durable store (store-backed provider only)
  calls,          \* the store-backed provider's calls, in start order, each with its position
  reload          \* the store-backed provider's loadData: a change notice pending, a fetched snapshot

vars == <<patients, prescriptions, receipts, tokenCounters, now, nextUuid,
          last, issued, store, calls, reload>>

(***************************************************************************)
(* Bounds of the exploration.                                              *)
(***************************************************************************)
MaxTime == 1            \* the clock runs 0..MaxTime
MaxTokPatients == 2     \* patients registered in the token specification
MaxTokCounter == 3      \* highest counter a department reaches there
MaxRxPatients == 1      \* patients registered in the prescription/receipt specification
MaxRxPrescriptions == 1 \* prescriptions created there
MaxRxReceipts == 2      \* receipts minted there
MaxScans == 3           \* scans of one receipt
MaxQueuePatients == 2   \* patients registered in the status specification
MaxQueueReceipts == 1   \* receipts minted there
MaxSortPatients == 3    \* patients in a list handed to getSortedQueue
SortClock == 200        \* the clock, in minutes, when such a list is sorted
MaxCalls == 2           \* calls started in the store-backed registration specification
MaxRegPatients == 2     \* patients registered in the registration specification
MaxCallPatients == 2    \* patients registered in the calling specification
MaxStaffPatients == 1   \* patients registered in the staff specification
MaxStaffCounter == 2    \* highest counter a department reaches there
MaxStaffReceipts == 1   \* receipts minted there
MaxXferPatients == 2    \* patients registered in the transfer specification
MaxXferCounter == 2     \* highest counter a department reaches there
MaxStoreCalls == 3      \* calls started in the store-backed removal specification
MaxScanCalls == 3       \* calls started in the store-backed scanning specification
MaxStaffCalls == 3      \* calls started in the store-backed staff specification
MaxDoctorCalls == 3     \* calls started in the store-backed doctor specification
MaxDrainPatients == 2   \* patients in the queue that is drained
MaxWaitPatients == 2    \* patients in the list the estimated wait is computed from
MaxPrescribePatients == 2  \* patients in the prescribing specification
MaxPrescriptions == 2    \* prescriptions in the prescribing specification

(***************************************************************************)
(* Types (src/src/types/queue.ts).                                         *)
(***************************************************************************)
Department == {"general_medicine", "pediatrics", "orthopedics", "gynecology"}
PatientStatus == {"waiting", "called", "consultation", "emergency", "completed"}
PrescriptionStatus == {"pending", "verified", "forwarded", "dispensed"}
EscalationLevel == {0, 1, 2}

None == << >>
Some(x) == <<x>>

Min(a, b) == IF a <= b THEN a ELSE b
Max(a, b) == IF a >= b THEN a ELSE b

NoVulnerabilities ==
  [elderly |-> FALSE, pregnant |-> FALSE, disabled |-> FALSE, chronicCondition |-> FALSE]

(***************************************************************************)
(* Inputs the operations are called with.                                  *)
(***************************************************************************)
\* the departments operations are called for (two of the four)
DeptInputs == {"general_medicine", "pediatrics"}
\* registration forms: patient X (severe, 65) and patient Y (mild, 30)
FormX ==
  [age |-> 65, symptomSeverity |-> "severe", vulnerabilities |-> NoVulnerabilities,
   visitType |-> "routine"]
FormY ==
  [age |-> 30, symptomSeverity |-> "mild", vulnerabilities |-> NoVulnerabilities,
   visitType |-> "routine"]
RegistrationInputs == {FormX, FormY}
\* Math.random() in generateTrustScore, as the rounded variance it yields
TrustVariance == {-20, 0, 20}
\* an id no patient, prescription or receipt carries
UnknownId == "unknown"
\* the status fields createPrescription is called with: the documented initial
\* state, and the one the doctor panel passes (handleForwardAndComplete)
PrescriptionInputs ==
  { [status |-> "pending", doctorVerified |-> FALSE],
    [status |-> "verified", doctorVerified |-> TRUE] }
\* diagnosis texts: absent, or a text
DiagnosisInputs == {None, Some("flu")}

(***************************************************************************)
(* The priority engine.                                                    *)
(***************************************************************************)
AGE_ELDERLY_THRESHOLD == 60
AGE_CHILD_THRESHOLD == 5
SEVERITY_CAP(s) == CASE s = "mild" -> 10 [] s = "moderate" -> 25 [] s = "severe" -> 40
VULNERABILITY(k) ==
  CASE k = "elderly" -> 15 [] k = "pregnant" -> 20 [] k = "disabled" -> 15
    [] k = "chronicCondition" -> 10
CHILD_BONUS == 12
WAIT_TIME_FACTOR_x10 == 5    \* 0.5 point per minute, times ten
MAX_WAIT_BONUS == 50
TRUST_FACTOR_x10 == 1        \* 0.1 point per trust point, times ten
ESCALATION(l) == CASE l = 0 -> 0 [] l = 1 -> 10 [] l = 2 -> 25
VISIT_TYPE(v) == CASE v = "routine" -> 0 [] v = "followup" -> 5 [] v = "referral" -> 10
LATE_PENALTY == 15

\* the wait bonus were it to grow without a cap
waitBonusUncapped(p, t) == (t - p.arrivalTime) * WAIT_TIME_FACTOR_x10

\* calculatePriorityScore's waitBonus, times ten, at clock value t
waitBonus(p, t) ==
  LET waitMinutes == t - p.arrivalTime
  IN Min(waitMinutes * WAIT_TIME_FACTOR_x10, 10 * MAX_WAIT_BONUS)

\* calculatePriorityScore, times ten, at clock value t
calculatePriorityScore(p, t) ==
  LET severity == 10 * SEVERITY_CAP(p.symptomSeverity)
      age == IF p.age >= AGE_ELDERLY_THRESHOLD THEN 10 * VULNERABILITY("elderly")
             ELSE IF p.age <= AGE_CHILD_THRESHOLD THEN 10 * CHILD_BONUS ELSE 0
      flag(k) == IF p.vulnerabilities[k] THEN 10 * VULNERABILITY(k) ELSE 0
      vuln == flag("elderly") + flag("pregnant") + flag("disabled") + flag("chronicCondition")
      trust == p.trustScore * TRUST_FACTOR_x10
      esc == 10 * ESCALATION(p.escalationLevel)
      visit == 10 * VISIT_TYPE(p.visitType)
      late == IF p.isLateArrival THEN 10 * LATE_PENALTY ELSE 0
  IN Max(0, severity + age + vuln + waitBonus(p, t) + trust + esc + visit - late)

\* the comparator without the precedence of called and consultation
compareNoStatus(a, b, t) ==
  IF a.isEmergency /\ ~b.isEmergency THEN -1
  ELSE IF b.isEmergency /\ ~a.isEmergency THEN 1
  ELSE IF calculatePriorityScore(b, t) # calculatePriorityScore(a, t)
       THEN calculatePriorityScore(b, t) - calculatePriorityScore(a, t)
  ELSE a.arrivalTime - b.arrivalTime

\* the comparator without the emergency override
compareNoEmergency(a, b, t) ==
  IF a.status = "called" /\ b.status # "called" THEN -1
  ELSE IF b.status = "called" /\ a.status # "called" THEN 1
  ELSE IF a.status = "consultation" /\ b.status # "consultation" THEN -1
  ELSE IF b.status = "consultation" /\ a.status # "consultation" THEN 1
  ELSE IF calculatePriorityScore(b, t) # calculatePriorityScore(a, t)
       THEN calculatePriorityScore(b, t) - calculatePriorityScore(a, t)
  ELSE a.arrivalTime - b.arrivalTime

\* the comparator were it to put a before b whenever nothing separates them
compareTiesFirst(a, b, t) ==
  IF a.status = "called" /\ b.status # "called" THEN -1
  ELSE IF b.status = "called" /\ a.status # "called" THEN 1
  ELSE IF a.status = "consultation" /\ b.status # "consultation" THEN -1
  ELSE IF b.status = "consultation" /\ a.status # "consultation" THEN 1
  ELSE IF a.isEmergency /\ ~b.isEmergency THEN -1
  ELSE IF b.isEmergency /\ ~a.isEmergency THEN 1
  ELSE IF calculatePriorityScore(b, t) # calculatePriorityScore(a, t)
       THEN calculatePriorityScore(b, t) - calculatePriorityScore(a, t)
  ELSE IF a.arrivalTime # b.arrivalTime THEN a.arrivalTime - b.arrivalTime
  ELSE -1

\* the comparator were it to put the lower score first
compareAscending(a, b, t) ==
  IF a.status = "called" /\ b.status # "called" THEN -1
  ELSE IF b.status = "called" /\ a.status # "called" THEN 1
  ELSE IF a.status = "consultation" /\ b.status # "consultation" THEN -1
  ELSE IF b.status = "consultation" /\ a.status # "consultation" THEN 1
  ELSE IF a.isEmergency /\ ~b.isEmergency THEN -1
  ELSE IF b.isEmergency /\ ~a.isEmergency THEN 1
  ELSE IF calculatePriorityScore(b, t) # calculatePriorityScore(a, t)
       THEN calculatePriorityScore(a, t) - calculatePriorityScore(b, t)
  ELSE a.arrivalTime - b.arrivalTime

\* the comparator handed to Array.prototype.sort: negative when a goes first
compare(a, b, t) ==
  IF a.status = "called" /\ b.status # "called" THEN -1
  ELSE IF b.status = "called" /\ a.status # "called" THEN 1
  ELSE IF a.status = "consultation" /\ b.status # "consultation" THEN -1
  ELSE IF b.status = "consultation" /\ a.status # "consultation" THEN 1
  ELSE IF a.isEmergency /\ ~b.isEmergency THEN -1
  ELSE IF b.isEmergency /\ ~a.isEmergency THEN 1
  ELSE IF calculatePriorityScore(b, t) # calculatePriorityScore(a, t)
       THEN calculatePriorityScore(b, t) - calculatePriorityScore(a, t)
  ELSE a.arrivalTime - b.arrivalTime

\* Array.prototype.sort is stable: p goes behind every element it does not precede
RECURSIVE insertSorted(_, _, _)
insertSorted(s, p, t) ==
  IF s = << >> THEN <<p>>
  ELSE IF compare(p, Head(s), t) < 0 THEN <<p>> \o s
  ELSE <<Head(s)>> \o insertSorted(Tail(s), p, t)

RECURSIVE stableSort(_, _)
stableSort(s, t) ==
  IF s = << >> THEN << >>
  ELSE insertSorted(stableSort(SubSeq(s, 1, Len(s) - 1), t), s[Len(s)], t)

\* sortQueueByPriority were it to put the completed patients first
sortQueueCompletedFirst(ps, dept, t) ==
  LET inDept(p) == dept = None \/ p.department = dept[1]
      filtered == SelectSeq(ps, inDept)
      isActive(p) == p.status # "completed"
      isCompleted(p) == p.status = "completed"
      active == SelectSeq(filtered, isActive)
      completed == SelectSeq(filtered, isCompleted)
  IN completed \o stableSort(active, t)

\* sortQueueByPriority were it to ignore the department
sortQueueUnfiltered(ps, dept, t) ==
  LET isActive(p) == p.status # "completed"
      isCompleted(p) == p.status = "completed"
      active == SelectSeq(ps, isActive)
      completed == SelectSeq(ps, isCompleted)
  IN stableSort(active, t) \o completed

\* sortQueueByPriority(patients, department?) ; dept = None is the absent filter
sortQueueByPriority(ps, dept, t) ==
  LET inDept(p) == dept = None \/ p.department = dept[1]
      filtered == SelectSeq(ps, inDept)
      isActive(p) == p.status # "completed"
      isCompleted(p) == p.status = "completed"
      active == SelectSeq(filtered, isActive)
      completed == SelectSeq(filtered, isCompleted)
  IN stableSort(active, t) \o completed

\* generateTrustScore, v the rounded variance (Math.random() - 0.5) * 40
generateTrustScore(v) == Min(100, Max(0, 70 + v))

prefixes(d) ==
  CASE d = "general_medicine" -> "GM" [] d = "pediatrics" -> "PD"
    [] d = "orthopedics" -> "OR" [] d = "gynecology" -> "GY"

\* String.prototype.padStart(3, '0')
RECURSIVE padStart3(_)
padStart3(s) == IF Len(s) >= 3 THEN s ELSE padStart3("0" \o s)

generateTokenNumber(d, counter) == prefixes(d) \o "-" \o padStart3(ToString(counter))

(***************************************************************************)
(* Records.                                                                *)
(***************************************************************************)
\* the n-th value uuidv4() returns
uuidv4(n) == "u" \o ToString(n)

MapSeq(s, f(_)) == [i \in DOMAIN s |-> f(s[i])]
Range(s) == {s[i] : i \in DOMAIN s}
HasId(s, id) == \E i \in DOMAIN s : s[i].id = id
\* Array.prototype.find by id; called only when HasId
FindById(s, id) == s[CHOOSE i \in DOMAIN s : s[i].id = id /\ \A j \in 1..(i - 1) : s[j].id # id]

\* a || b on optional texts
OrElse(a, b) == IF a # None THEN a ELSE b

\* REGISTER_PATIENT were it to form the token from the counter before the increment
newPatientStaleToken(id, payload, counter, t, v) ==
  [id |-> id,
   tokenNumber |-> generateTokenNumber(payload.department, counter - 1),
   department |-> payload.department,
   age |-> payload.age,
   symptomSeverity |-> payload.symptomSeverity,
   vulnerabilities |-> payload.vulnerabilities,
   visitType |-> payload.visitType,
   status |-> "waiting",
   arrivalTime |-> t,
   escalationLevel |-> 0,
   isEmergency |-> FALSE,
   isLateArrival |-> FALSE,
   trustScore |-> generateTrustScore(v),
   receiptId |-> None,
   consultationEndTime |-> None,
   diagnosis |-> None,
   prescriptionId |-> None]

\* the Patient REGISTER_PATIENT builds
newPatient(id, payload, counter, t, v) ==
  [id |-> id,
   tokenNumber |-> generateTokenNumber(payload.department, counter),
   department |-> payload.department,
   age |-> payload.age,
   symptomSeverity |-> payload.symptomSeverity,
   vulnerabilities |-> payload.vulnerabilities,
   visitType |-> payload.visitType,
   status |-> "waiting",
   arrivalTime |-> t,
   escalationLevel |-> 0,
   isEmergency |-> FALSE,
   isLateArrival |-> FALSE,
   trustScore |-> generateTrustScore(v),
   receiptId |-> None,
   consultationEndTime |-> None,
   diagnosis |-> None,
   prescriptionId |-> None]

\* the VisitReceipt COMPLETE_CONSULTATION builds
newReceipt(id, patient, diagnosis, rxs, t) ==
  [id |-> id,
   patientId |-> patient.id,
   tokenNumber |-> patient.tokenNumber,
   department |-> patient.department,
   visitDate |-> t,
   visitType |-> patient.visitType,
   diagnosis |-> OrElse(diagnosis, patient.diagnosis),
   prescriptionId |-> patient.prescriptionId,
   prescriptionStatus |->
     IF patient.prescriptionId # None /\ HasId(rxs, patient.prescriptionId[1])
     THEN Some(FindById(rxs, patient.prescriptionId[1]).status) ELSE None,
   status |-> "active",
   scanCount |-> 0,
   createdAt |-> t]

\* createPrescription were it to ignore the caller's status and doctorVerified
newPrescriptionPending(id, data, t) ==
  [id |-> id,
   patientId |-> data.patientId,
   tokenNumber |-> data.tokenNumber,
   department |-> data.department,
   diagnosis |-> data.diagnosis,
   status |-> "pending",
   doctorVerified |-> FALSE,
   createdAt |-> t,
   forwardedAt |-> None,
   dispensedAt |-> None]

\* the Prescription createPrescription builds from the caller's fields
newPrescription(id, data, t) ==
  [id |-> id,
   patientId |-> data.patientId,
   tokenNumber |-> data.tokenNumber,
   department |-> data.department,
   diagnosis |-> data.diagnosis,
   status |-> data.status,
   doctorVerified |-> data.doctorVerified,
   createdAt |-> t,
   forwardedAt |-> None,
   dispensedAt |-> None]

\* SCAN_RECEIPT were it to fulfil a receipt from its third scan on
scannedLate(r) ==
  LET newScanCount == r.scanCount + 1
  IN [r EXCEPT !.scanCount = newScanCount,
               !.status = IF newScanCount > 2 THEN "fulfilled" ELSE r.status]

\* SCAN_RECEIPT were it to fulfil a receipt at its first scan
scannedEarly(r) ==
  LET newScanCount == r.scanCount + 1
  IN [r EXCEPT !.scanCount = newScanCount,
               !.status = IF newScanCount > 0 THEN "fulfilled" ELSE r.status]

\* the receipt SCAN_RECEIPT puts in place of r
scanned(r) ==
  LET newScanCount == r.scanCount + 1
  IN [r EXCEPT !.scanCount = newScanCount,
               !.status = IF newScanCount > 1 THEN "fulfilled" ELSE r.status]

Called(op, args, toast, ret) == [op |-> op, args |-> args, toast |-> toast, ret |-> ret]

(***************************************************************************)
(* Initial state: initialState of both providers, an empty store.          *)
(***************************************************************************)
\* the tables as the schema scripts leave them; the patients table of
\* scripts/init_db.sql declares token_number UNIQUE, the one of
\* scripts/create-healthchain-tables.sql does not
initialStore(token_unique) ==
  [token_unique |-> token_unique,
   patients |-> {}, prescriptions |-> {}, receipts |-> {},
   token_counters |-> [d \in Department |-> 0]]

InitLocal ==
  /\ patients = << >>
  /\ prescriptions = << >>
  /\ receipts = << >>
  /\ tokenCounters = [d \in Department |-> 0]
  /\ now = 0
  /\ nextUuid = 0
  /\ last = Called("init", << >>, "none", None)
  /\ issued = [d \in Department |-> << >>]
  /\ calls = << >>

\* the reducer-only provider has no store and never loads
Init ==
  /\ InitLocal
  /\ store = initialStore(FALSE)
  /\ reload = [pending |-> FALSE, snapshot |-> None]

\* the store-backed provider loads on mount, from a store of either schema
InitStoreBacked ==
  /\ InitLocal
  /\ \E token_unique \in BOOLEAN : store = initialStore(token_unique)
  /\ reload = [pending |-> TRUE, snapshot |-> None]

\* the clock advances
Tick ==
  /\ now < MaxTime
  /\ now' = now + 1
  /\ UNCHANGED <<patients, prescriptions, receipts, tokenCounters, nextUuid, last,
                 issued, store, calls, reload>>

(***************************************************************************)
(* The reducer-only provider (src/unnamed/part_005): one action per        *)
(* operation, the provider function together with its reducer case.        *)
(***************************************************************************)
registerPatient(payload, v) ==
  LET department == payload.department
      id == uuidv4(nextUuid + 1)                  \* the provider's uuidv4()
      newCounter == tokenCounters[department] + 1
      p == newPatient(uuidv4(nextUuid + 2), payload, newCounter, now, v)
  IN /\ patients' = sortQueueByPriority(Append(patients, p), None, now)
     /\ tokenCounters' = [tokenCounters EXCEPT ![department] = newCounter]
     /\ nextUuid' = nextUuid + 2
     /\ issued' = [issued EXCEPT ![department] = Append(@, newCounter)]
     /\ last' = Called("registerPatient", <<department>>,
                       "Patient registered - Token: "
                         \o generateTokenNumber(department, tokenCounters[department] + 1),
                       Some(id))
     /\ UNCHANGED <<prescriptions, receipts, now, store, calls, reload>>

\* the frame of an operation that rewrites only the patient list
PatientsOnly ==
  UNCHANGED <<prescriptions, receipts, tokenCounters, now, nextUuid, issued, store, calls, reload>>

updateStatus(patientId, status) ==
  LET upd(p) == IF p.id = patientId THEN [p EXCEPT !.status = status] ELSE p
  IN /\ patients' = sortQueueByPriority(MapSeq(patients, upd), None, now)
     /\ last' = Called("updateStatus", <<patientId, status>>, "none", None)
     /\ PatientsOnly

markEmergency(patientId) ==
  LET upd(p) == IF p.id = patientId
                THEN [p EXCEPT !.isEmergency = TRUE, !.status = "emergency"] ELSE p
  IN /\ patients' = sortQueueByPriority(MapSeq(patients, upd), None, now)
     /\ last' = Called("markEmergency", <<patientId>>, "EMERGENCY", None)
     /\ PatientsOnly

resolveEmergency(patientId) ==
  LET upd(p) == IF p.id = patientId
                THEN [p EXCEPT !.isEmergency = FALSE, !.status = "waiting"] ELSE p
  IN /\ patients' = sortQueueByPriority(MapSeq(patients, upd), None, now)
     /\ last' = Called("resolveEmergency", <<patientId>>, "Emergency resolved", None)
     /\ PatientsOnly

markLateArrival(patientId) ==
  LET upd(p) == IF p.id = patientId THEN [p EXCEPT !.isLateArrival = TRUE] ELSE p
  IN /\ patients' = sortQueueByPriority(MapSeq(patients, upd), None, now)
     /\ last' = Called("markLateArrival", <<patientId>>, "Patient marked as late arrival", None)
     /\ PatientsOnly

escalate(patientId, level) ==
  LET upd(p) == IF p.id = patientId THEN [p EXCEPT !.escalationLevel = level] ELSE p
  IN /\ patients' = sortQueueByPriority(MapSeq(patients, upd), None, now)
     /\ last' = Called("escalate", <<patientId, level>>, "Priority escalated", None)
     /\ PatientsOnly

\* the waiting patients of a department, worst first
waitingWorstFirst(ps, department, t) ==
  LET isWaiting(p) == p.department = department /\ p.status = "waiting"
      sorted == sortQueueByPriority(SelectSeq(ps, isWaiting), Some(department), t)
  IN [i \in DOMAIN sorted |-> sorted[Len(sorted) + 1 - i]]

\* the waiting patients of every department, best first
waitingAnyDepartment(ps, department, t) ==
  LET isWaiting(p) == p.status = "waiting"
  IN sortQueueByPriority(SelectSeq(ps, isWaiting), None, t)

\* the waiting patients of a department, best first
waitingSorted(ps, department, t) ==
  LET isWaiting(p) == p.department = department /\ p.status = "waiting"
  IN sortQueueByPriority(SelectSeq(ps, isWaiting), Some(department), t)

\* callNext were it to announce the patient and leave it waiting
callNextAnnounceOnly(department) ==
  LET sorted == waitingSorted(patients, department, now)
  IN /\ patients' = patients
     /\ last' = Called("callNext", <<department>>,
                       IF Len(sorted) > 0 THEN "Calling " \o sorted[1].tokenNumber
                       ELSE "No patients waiting in this department", None)
     /\ PatientsOnly

callNext(department) ==
  LET sorted == waitingSorted(patients, department, now)
      upd(p) == IF p.id = sorted[1].id THEN [p EXCEPT !.status = "called"] ELSE p
  IN /\ IF Len(sorted) > 0
        THEN /\ patients' = sortQueueByPriority(MapSeq(patients, upd), None, now)
             /\ last' = Called("callNext", <<department>>,
                               "Calling " \o sorted[1].tokenNumber, None)
        ELSE /\ patients' = patients
             /\ last' = Called("callNext", <<department>>,
                               "No patients waiting in this department", None)
     /\ PatientsOnly

startConsultation(patientId) ==
  LET upd(p) == IF p.id = patientId THEN [p EXCEPT !.status = "consultation"] ELSE p
  IN /\ patients' = sortQueueByPriority(MapSeq(patients, upd), None, now)
     /\ last' = Called("startConsultation", <<patientId>>, "Consultation started", None)
     /\ PatientsOnly

completeConsultation(patientId, diagnosis) ==
  LET receiptId == uuidv4(nextUuid + 1)
      patient == FindById(patients, patientId)
      upd(p) == IF p.id = patientId
                THEN [p EXCEPT !.status = "completed",
                               !.receiptId = Some(receiptId),
                               !.diagnosis = OrElse(diagnosis, p.diagnosis),
                               !.consultationEndTime = Some(now)]
                ELSE p
  IN /\ IF HasId(patients, patientId)
        THEN /\ patients' = sortQueueByPriority(MapSeq(patients, upd), None, now)
             /\ receipts' = Append(receipts,
                                   newReceipt(receiptId, patient, diagnosis, prescriptions, now))
             /\ nextUuid' = nextUuid + 1
        ELSE UNCHANGED <<patients, receipts, nextUuid>>
     /\ last' = Called("completeConsultation", <<patientId>>,
                       "Consultation completed - Receipt generated", None)
     /\ UNCHANGED <<prescriptions, tokenCounters, now, issued, store, calls, reload>>

removePatient(patientId) ==
  LET keep(p) == p.id # patientId
  IN /\ patients' = SelectSeq(patients, keep)
     /\ last' = Called("removePatient", <<patientId>>, "Patient removed from queue", None)
     /\ PatientsOnly

\* TRANSFER_DEPARTMENT were it to hand the old token's number back to the
\* department the patient leaves
transferDepartmentReclaim(patientId, newDepartment) ==
  LET newCounter == tokenCounters[newDepartment] + 1
      newToken == generateTokenNumber(newDepartment, newCounter)
      upd(p) == IF p.id = patientId
                THEN [p EXCEPT !.department = newDepartment, !.tokenNumber = newToken] ELSE p
      left == IF HasId(patients, patientId)
              THEN {FindById(patients, patientId).department} \ {newDepartment} ELSE {}
  IN /\ patients' = sortQueueByPriority(MapSeq(patients, upd), None, now)
     /\ tokenCounters' = [d \in Department |->
                            IF d = newDepartment THEN newCounter
                            ELSE IF d \in left THEN tokenCounters[d] - 1
                            ELSE tokenCounters[d]]
     /\ issued' = IF HasId(patients, patientId)
                  THEN [issued EXCEPT ![newDepartment] = Append(@, newCounter)]
                  ELSE issued
     /\ last' = Called("transferDepartment", <<patientId, newDepartment>>,
                       "Patient transferred", None)
     /\ UNCHANGED <<prescriptions, receipts, now, nextUuid, store, calls, reload>>

transferDepartment(patientId, newDepartment) ==
  LET newCounter == tokenCounters[newDepartment] + 1
      newToken == generateTokenNumber(newDepartment, newCounter)
      upd(p) == IF p.id = patientId
                THEN [p EXCEPT !.department = newDepartment, !.tokenNumber = newToken] ELSE p
  IN /\ patients' = sortQueueByPriority(MapSeq(patients, upd), None, now)
     /\ tokenCounters' = [tokenCounters EXCEPT ![newDepartment] = newCounter]
     /\ issued' = IF HasId(patients, patientId)
                  THEN [issued EXCEPT ![newDepartment] = Append(@, newCounter)]
                  ELSE issued
     /\ last' = Called("transferDepartment", <<patientId, newDepartment>>,
                       "Patient transferred", None)
     /\ UNCHANGED <<prescriptions, receipts, now, nextUuid, store, calls, reload>>

\* createPrescription were it to leave the patient without the back-link
createPrescriptionUnlinked(prescriptionData) ==
  LET id == uuidv4(nextUuid + 1)
      prescription == newPrescription(id, prescriptionData, now)
  IN /\ prescriptions' = Append(prescriptions, prescription)
     /\ patients' = patients
     /\ nextUuid' = nextUuid + 1
     /\ last' = Called("createPrescription",
                       <<prescriptionData.patientId, prescriptionData.status,
                         prescriptionData.doctorVerified>>, "none", Some(id))
     /\ UNCHANGED <<receipts, tokenCounters, now, issued, store, calls, reload>>

createPrescription(prescriptionData) ==
  LET id == uuidv4(nextUuid + 1)
      prescription == newPrescription(id, prescriptionData, now)
      upd(p) == IF p.id = prescription.patientId
                THEN [p EXCEPT !.prescriptionId = Some(prescription.id),
                               !.diagnosis = Some(prescription.diagnosis)]
                ELSE p
  IN /\ prescriptions' = Append(prescriptions, prescription)
     /\ patients' = MapSeq(patients, upd)
     /\ nextUuid' = nextUuid + 1
     /\ last' = Called("createPrescription",
                       <<prescriptionData.patientId, prescriptionData.status,
                         prescriptionData.doctorVerified>>, "none", Some(id))
     /\ UNCHANGED <<receipts, tokenCounters, now, issued, store, calls, reload>>

\* the frame of an operation that rewrites only the prescription list
PrescriptionsOnly ==
  UNCHANGED <<patients, receipts, tokenCounters, now, nextUuid, issued, store, calls, reload>>

verifyPrescription(prescriptionId) ==
  LET upd(p) == IF p.id = prescriptionId
                THEN [p EXCEPT !.doctorVerified = TRUE, !.status = "verified"] ELSE p
  IN /\ prescriptions' = MapSeq(prescriptions, upd)
     /\ last' = Called("verifyPrescription", <<prescriptionId>>,
                       "Prescription verified by doctor", None)
     /\ PrescriptionsOnly

forwardPrescription(prescriptionId) ==
  LET upd(p) == IF p.id = prescriptionId
                THEN [p EXCEPT !.status = "forwarded", !.forwardedAt = Some(now)] ELSE p
  IN /\ prescriptions' = MapSeq(prescriptions, upd)
     /\ last' = Called("forwardPrescription", <<prescriptionId>>,
                       "Prescription forwarded to Medicine Department", None)
     /\ PrescriptionsOnly

dispenseMedicine(prescriptionId) ==
  LET upd(p) == IF p.id = prescriptionId
                THEN [p EXCEPT !.status = "dispensed", !.dispensedAt = Some(now)] ELSE p
      updReceipt(r) == IF r.prescriptionId = Some(prescriptionId)
                       THEN [r EXCEPT !.prescriptionStatus = Some("dispensed")] ELSE r
  IN /\ prescriptions' = MapSeq(prescriptions, upd)
     /\ receipts' = MapSeq(receipts, updReceipt)
     /\ last' = Called("dispenseMedicine", <<prescriptionId>>,
                       "Medicines dispensed successfully", None)
     /\ UNCHANGED <<patients, tokenCounters, now, nextUuid, issued, store, calls, reload>>

scanReceipt(receiptId) ==
  LET receipt == FindById(receipts, receiptId)
      upd(r) == IF r.id = receiptId THEN scanned(r) ELSE r
  IN /\ IF HasId(receipts, receiptId)
        THEN /\ receipts' = MapSeq(receipts, upd)
             /\ last' = Called("scanReceipt", <<receiptId>>,
                               IF receipt.scanCount >= 1
                               THEN "FRAUD ALERT: This receipt has already been used!"
                               ELSE "none",
                               Some(receipt))
        ELSE /\ receipts' = receipts
             /\ last' = Called("scanReceipt", <<receiptId>>, "none", None)
     /\ UNCHANGED <<patients, prescriptions, tokenCounters, now, nextUuid, issued,
                    store, calls, reload>>

\* getPatient: Array.prototype.find by id, None for undefined
getPatient(patientId) ==
  IF HasId(patients, patientId) THEN Some(FindById(patients, patientId)) ELSE None

(***************************************************************************)
(* Ids the operations are called with: every id in use, and an unknown one.*)
(***************************************************************************)
PatientIds == {patients[i].id : i \in DOMAIN patients} \cup {UnknownId}
PrescriptionIds == {prescriptions[i].id : i \in DOMAIN prescriptions} \cup {UnknownId}
ReceiptIds == {receipts[i].id : i \in DOMAIN receipts} \cup {UnknownId}

Registration(form, d) ==
  [age |-> form.age, symptomSeverity |-> form.symptomSeverity,
   vulnerabilities |-> form.vulnerabilities, visitType |-> form.visitType,
   department |-> d]

(***************************************************************************)
(* Token allocation under the reducer-only provider: registration,         *)
(* transfer and removal, with calls and emergencies reordering the queue.  *)
(***************************************************************************)
NextTokens ==
  \/ \E d \in DeptInputs :
       /\ nextUuid < 2 * MaxTokPatients
       /\ tokenCounters[d] < MaxTokCounter
       /\ registerPatient(Registration(FormX, d), 0)
  \/ \E id \in PatientIds, d \in DeptInputs :
       /\ tokenCounters[d] < MaxTokCounter
       /\ transferDepartment(id, d)
  \/ \E id \in PatientIds : removePatient(id)
  \/ \E d \in DeptInputs : callNext(d)

SpecTokens == Init /\ [][NextTokens]_vars

\* the fields the doctor panel hands to createPrescription for patient p
PrescriptionData(p, in) ==
  [patientId |-> p.id, tokenNumber |-> p.tokenNumber, department |-> p.department,
   diagnosis |-> "flu", status |-> in.status, doctorVerified |-> in.doctorVerified]

(***************************************************************************)
(* The prescription workflow under the reducer-only provider.              *)
(***************************************************************************)
NextRx ==
  \/ Tick
  \/ /\ Len(patients) < MaxRxPatients
     /\ registerPatient(Registration(FormX, "general_medicine"), 0)
  \/ \E i \in DOMAIN patients, in \in PrescriptionInputs :
       /\ Len(prescriptions) < MaxRxPrescriptions
       /\ createPrescription(PrescriptionData(patients[i], in))
  \/ \E id \in PrescriptionIds : verifyPrescription(id)
  \/ \E id \in PrescriptionIds : forwardPrescription(id)
  \/ \E id \in PrescriptionIds : dispenseMedicine(id)

SpecRx == Init /\ [][NextRx]_vars

(***************************************************************************)
(* Visit receipts under the reducer-only provider: a visit is completed    *)
(* and its receipt scanned.                                                *)
(***************************************************************************)
NextReceipt ==
  \/ Tick
  \/ /\ Len(patients) < MaxRxPatients
     /\ registerPatient(Registration(FormX, "general_medicine"), 0)
  \/ \E id \in PatientIds, diagnosis \in DiagnosisInputs :
       /\ Len(receipts) < MaxRxReceipts
       /\ completeConsultation(id, diagnosis)
  \/ \E id \in ReceiptIds :
       /\ \A i \in DOMAIN receipts : receipts[i].id = id => receipts[i].scanCount < MaxScans
       /\ scanReceipt(id)

SpecReceipt == Init /\ [][NextReceipt]_vars

(***************************************************************************)
(* A whole visit under the reducer-only provider: the patient is           *)
(* prescribed for and completed, the prescription forwarded and dispensed, *)
(* the receipt scanned, the patient removed.                               *)
(***************************************************************************)
NextVisit ==
  \/ /\ tokenCounters["general_medicine"] < MaxRxPatients
     /\ registerPatient(Registration(FormX, "general_medicine"), 0)
  \/ \E i \in DOMAIN patients, in \in PrescriptionInputs :
       /\ Len(prescriptions) < MaxRxPrescriptions
       /\ createPrescription(PrescriptionData(patients[i], in))
  \/ \E id \in PrescriptionIds : forwardPrescription(id)
  \/ \E id \in PrescriptionIds : dispenseMedicine(id)
  \/ \E id \in PatientIds :
       /\ Len(receipts) < MaxRxReceipts
       /\ completeConsultation(id, None)
  \/ \E id \in ReceiptIds :
       /\ \A i \in DOMAIN receipts : receipts[i].id = id => receipts[i].scanCount < MaxScans
       /\ scanReceipt(id)
  \/ \E id \in PatientIds : removePatient(id)

SpecVisit == Init /\ [][NextVisit]_vars

(***************************************************************************)
(* Prescribing under the reducer-only provider: patients register, are     *)
(* called and consulted, and prescriptions are created for them.           *)
(***************************************************************************)
NextPrescribe ==
  \/ /\ Len(patients) < MaxPrescribePatients
     /\ registerPatient(Registration(FormX, "general_medicine"), 0)
  \/ callNext("general_medicine")
  \/ \E i \in DOMAIN patients : startConsultation(patients[i].id)
  \/ \E i \in DOMAIN patients, in \in PrescriptionInputs :
       /\ Len(prescriptions) < MaxPrescriptions
       /\ createPrescription(PrescriptionData(patients[i], in))

SpecPrescribe == Init /\ [][NextPrescribe]_vars

(***************************************************************************)
(* The store-backed provider (src/unnamed/part_004).  A call runs to its   *)
(* first await in one step, reading the rendered state; each await is a    *)
(* step of its own, at which the store applies the request or fails it;    *)
(* the dispatches after the last await happen in that step.                *)
(***************************************************************************)
patientToDbPatient(p) ==
  [id |-> p.id, token_number |-> p.tokenNumber, age |-> p.age,
   department |-> p.department, symptom_severity |-> p.symptomSeverity,
   vulnerabilities |-> p.vulnerabilities, visit_type |-> p.visitType,
   status |-> p.status, arrival_time |-> p.arrivalTime,
   escalation_level |-> p.escalationLevel, is_emergency |-> p.isEmergency,
   is_late_arrival |-> p.isLateArrival, trust_score |-> p.trustScore,
   receipt_id |-> p.receiptId, consultation_end_time |-> p.consultationEndTime,
   diagnosis |-> p.diagnosis, prescription_id |-> p.prescriptionId]

dbPatientToPatient(db) ==
  [id |-> db.id, tokenNumber |-> db.token_number, age |-> db.age,
   department |-> db.department, symptomSeverity |-> db.symptom_severity,
   vulnerabilities |-> db.vulnerabilities, visitType |-> db.visit_type,
   status |-> db.status, arrivalTime |-> db.arrival_time,
   escalationLevel |-> db.escalation_level, isEmergency |-> db.is_emergency,
   isLateArrival |-> db.is_late_arrival, trustScore |-> db.trust_score,
   receiptId |-> db.receipt_id, consultationEndTime |-> db.consultation_end_time,
   diagnosis |-> db.diagnosis, prescriptionId |-> db.prescription_id]

\* the indices of the calls that have started and not finished
InFlight == {i \in DOMAIN calls : calls[i].pc \notin {"done", "failed"}}

\* a write to the patients table notifies the subscriber, which calls loadData
Notified == [reload EXCEPT !.pending = TRUE]

\* registerPatient up to its first await: the insert is on its way
registerPatientStart(patientData, v) ==
  LET department == patientData.department
      newCounter == tokenCounters[department] + 1
      p == newPatient(uuidv4(nextUuid + 1), patientData, newCounter, now, v)
  IN /\ calls' = Append(calls, [op |-> "registerPatient", pc |-> "insert",
                                department |-> department, newCounter |-> newCounter,
                                newPatient |-> p, overlapped |-> InFlight])
     /\ nextUuid' = nextUuid + 1
     /\ UNCHANGED <<patients, prescriptions, receipts, tokenCounters, now, last, issued,
                    store, reload>>

\* whether the patients table takes the row
insertAccepted(row) ==
  ~store.token_unique \/ \A r \in store.patients : r.token_number # row.token_number

\* supabase.from('patients').insert(...) answers; ok = FALSE is a store error
registerPatientInserted(i, ok) ==
  LET c == calls[i]
      row == patientToDbPatient(c.newPatient)
  IN /\ c.op = "registerPatient" /\ c.pc = "insert"
     /\ IF ok /\ insertAccepted(row)
        THEN /\ store' = [store EXCEPT !.patients = @ \cup {row}]
             /\ reload' = Notified
             /\ calls' = [calls EXCEPT ![i].pc = "counter"]
             /\ last' = last
        ELSE /\ calls' = [calls EXCEPT ![i].pc = "failed"]
             /\ last' = Called("registerPatient", <<c.department>>,
                               "Failed to register patient", None)
             /\ UNCHANGED <<store, reload>>
     /\ UNCHANGED <<patients, prescriptions, receipts, tokenCounters, now, nextUuid, issued>>

\* updateTokenCounter's upsert answers; then SET_TOKEN_COUNTER and REGISTER_PATIENT
registerPatientCounterUpdated(i, ok) ==
  LET c == calls[i]
  IN /\ c.op = "registerPatient" /\ c.pc = "counter"
     /\ IF ok
        THEN /\ store' = [store EXCEPT !.token_counters[c.department] = c.newCounter]
             /\ tokenCounters' = [tokenCounters EXCEPT ![c.department] = c.newCounter]
             /\ patients' = sortQueueByPriority(Append(patients, c.newPatient), None, now)
             /\ calls' = [calls EXCEPT ![i].pc = "done"]
             /\ last' = Called("registerPatient", <<c.department>>,
                               "Patient registered - Token: " \o c.newPatient.tokenNumber,
                               Some(c.newPatient.id))
        ELSE /\ calls' = [calls EXCEPT ![i].pc = "failed"]
             /\ last' = Called("registerPatient", <<c.department>>,
                               "Failed to register patient", None)
             /\ UNCHANGED <<store, tokenCounters, patients>>
     /\ UNCHANGED <<prescriptions, receipts, now, nextUuid, issued, reload>>

dbPrescriptionToPrescription(db) ==
  [id |-> db.id, patientId |-> db.patient_id, tokenNumber |-> db.token_number,
   department |-> db.department, diagnosis |-> db.diagnosis, status |-> db.status,
   doctorVerified |-> db.doctor_verified, createdAt |-> db.created_at,
   forwardedAt |-> db.forwarded_at, dispensedAt |-> db.dispensed_at]

dbReceiptToReceipt(db) ==
  [id |-> db.id, patientId |-> db.patient_id, tokenNumber |-> db.token_number,
   department |-> db.department, visitDate |-> db.visit_date, visitType |-> db.visit_type,
   diagnosis |-> db.diagnosis, prescriptionId |-> db.prescription_id,
   prescriptionStatus |-> db.prescription_status, status |-> db.status,
   scanCount |-> db.scan_count, createdAt |-> db.created_at]

\* the orders in which select('*').order(column) may return the rows: rows
\* that agree on the column come in any order
RECURSIVE Orderings(_, _)
Orderings(rows, column) ==
  IF rows = {} THEN {<< >>}
  ELSE UNION { { <<r>> \o s : s \in Orderings(rows \ {r}, column) } :
               r \in {x \in rows : \A y \in rows : x[column] <= y[column]} }

\* loadData: the four selects answer
loadDataFetch ==
  /\ reload.pending
  /\ reload' = [pending |-> FALSE, snapshot |-> Some(store)]
  /\ UNCHANGED <<patients, prescriptions, receipts, tokenCounters, now, nextUuid, last,
                 issued, store, calls>>

\* loadData: LOAD_STATE replaces the local state by what was fetched
loadDataDispatch ==
  /\ reload.snapshot # None
  /\ LET db == reload.snapshot[1]
     IN /\ \E rows \in Orderings(db.patients, "arrival_time") :
             patients' = sortQueueByPriority(MapSeq(rows, dbPatientToPatient), None, now)
        /\ \E rows \in Orderings(db.prescriptions, "created_at") :
             prescriptions' = MapSeq(rows, dbPrescriptionToPrescription)
        /\ \E rows \in Orderings(db.receipts, "created_at") :
             receipts' = MapSeq(rows, dbReceiptToReceipt)
        /\ tokenCounters' = db.token_counters
  /\ reload' = [reload EXCEPT !.snapshot = None]
  /\ UNCHANGED <<now, nextUuid, last, issued, store, calls>>

(***************************************************************************)
(* Registration under the store-backed provider.                           *)
(***************************************************************************)
NextStoreReg ==
  \/ \E d \in DeptInputs :
       /\ Len(calls) < MaxCalls
       /\ registerPatientStart(Registration(FormX, d), 0)
  \/ \E i \in DOMAIN calls, ok \in BOOLEAN : registerPatientInserted(i, ok)
  \/ \E i \in DOMAIN calls, ok \in BOOLEAN : registerPatientCounterUpdated(i, ok)
  \/ loadDataFetch
  \/ loadDataDispatch

SpecStoreReg == InitStoreBacked /\ [][NextStoreReg]_vars

(***************************************************************************)
(* Completion and removal under the store-backed provider.  The receipts   *)
(* and prescriptions tables reference patients(id) ON DELETE CASCADE       *)
(* (scripts/create-healthchain-tables.sql lines 80 and 99, scripts/        *)
(* init_db.sql lines 31 and 50).                                           *)
(***************************************************************************)
receiptToDbReceipt(r) ==
  [id |-> r.id, patient_id |-> r.patientId, token_number |-> r.tokenNumber,
   department |-> r.department, visit_date |-> r.visitDate, visit_type |-> r.visitType,
   diagnosis |-> r.diagnosis, prescription_id |-> r.prescriptionId,
   prescription_status |-> r.prescriptionStatus, status |-> r.status,
   scan_count |-> r.scanCount, created_at |-> r.createdAt]

\* completeConsultation up to its await: the receipt insert and the patient
\* update are on their way; an unknown id returns at once
completeConsultationStart(patientId, diagnosis) ==
  LET patient == FindById(patients, patientId)
      receiptId == uuidv4(nextUuid + 1)
      updatedPatient == [patient EXCEPT !.status = "completed",
                                        !.receiptId = Some(receiptId),
                                        !.diagnosis = OrElse(diagnosis, patient.diagnosis),
                                        !.consultationEndTime = Some(now)]
  IN /\ IF HasId(patients, patientId)
        THEN /\ calls' = Append(calls,
                           [op |-> "completeConsultation", pc |-> "write",
                            patientId |-> patientId,
                            newReceipt |-> newReceipt(receiptId, patient, diagnosis,
                                                      prescriptions, now),
                            updatedPatient |-> updatedPatient,
                            overlapped |-> InFlight])
             /\ nextUuid' = nextUuid + 1
             /\ last' = last
        ELSE /\ last' = Called("completeConsultation", <<patientId>>, "none", None)
             /\ UNCHANGED <<calls, nextUuid>>
     /\ UNCHANGED <<patients, prescriptions, receipts, tokenCounters, now, issued,
                    store, reload>>

\* the two writes of completeConsultation answer; the receipts table takes the
\* row only while its patient is stored
completeConsultationWritten(i, receiptOk, patientOk) ==
  LET c == calls[i]
      inserted == receiptOk /\ \E r \in store.patients : r.id = c.patientId
      row(r) == IF r.id = c.patientId
                THEN [r EXCEPT !.status = "completed",
                               !.receipt_id = c.updatedPatient.receiptId,
                               !.diagnosis = c.updatedPatient.diagnosis,
                               !.consultation_end_time = c.updatedPatient.consultationEndTime]
                ELSE r
      upd(p) == IF p.id = c.updatedPatient.id THEN c.updatedPatient ELSE p
  IN /\ c.op = "completeConsultation" /\ c.pc = "write"
     /\ store' = [store EXCEPT
                    !.receipts = IF inserted THEN @ \cup {receiptToDbReceipt(c.newReceipt)}
                                 ELSE @,
                    !.patients = IF patientOk THEN {row(r) : r \in @} ELSE @]
     /\ reload' = IF inserted \/ patientOk THEN Notified ELSE reload
     /\ IF inserted /\ patientOk
        THEN /\ patients' = sortQueueByPriority(MapSeq(patients, upd), None, now)
             /\ receipts' = Append(receipts, c.newReceipt)
             /\ calls' = [calls EXCEPT ![i].pc = "done"]
             /\ last' = Called("completeConsultation", <<c.patientId>>,
                               "Consultation completed - Receipt generated", None)
        ELSE /\ calls' = [calls EXCEPT ![i].pc = "failed"]
             /\ last' = Called("completeConsultation", <<c.patientId>>,
                               "Failed to complete consultation", None)
             /\ UNCHANGED <<patients, receipts>>
     /\ UNCHANGED <<prescriptions, tokenCounters, now, nextUuid, issued>>

\* removePatient up to its await: the delete is on its way
removePatientStart(patientId) ==
  /\ calls' = Append(calls, [op |-> "removePatient", pc |-> "delete",
                              patientId |-> patientId, overlapped |-> InFlight])
  /\ UNCHANGED <<patients, prescriptions, receipts, tokenCounters, now, nextUuid, last,
                 issued, store, reload>>

\* the delete answers: the store drops the patient's row and, by cascade, the
\* prescriptions and receipts that reference it; then REMOVE_PATIENT
removePatientDeleted(i, ok) ==
  LET c == calls[i]
      keep(p) == p.id # c.patientId
  IN /\ c.op = "removePatient" /\ c.pc = "delete"
     /\ IF ok
        THEN /\ store' = [store EXCEPT
                            !.patients = {r \in @ : r.id # c.patientId},
                            !.prescriptions = {r \in @ : r.patient_id # c.patientId},
                            !.receipts = {r \in @ : r.patient_id # c.patientId}]
             /\ reload' = IF \E r \in store.patients : r.id = c.patientId
                          THEN Notified ELSE reload
             /\ patients' = SelectSeq(patients, keep)
             /\ calls' = [calls EXCEPT ![i].pc = "done"]
             /\ last' = Called("removePatient", <<c.patientId>>,
                               "Patient removed from queue", None)
        ELSE /\ calls' = [calls EXCEPT ![i].pc = "failed"]
             /\ last' = Called("removePatient", <<c.patientId>>,
                               "Failed to remove patient", None)
             /\ UNCHANGED <<store, reload, patients>>
     /\ UNCHANGED <<prescriptions, receipts, tokenCounters, now, nextUuid, issued>>

NextStoreRemove ==
  \/ /\ Len(calls) < MaxStoreCalls
     /\ registerPatientStart(Registration(FormX, "general_medicine"), 0)
  \/ \E i \in DOMAIN calls, ok \in BOOLEAN : registerPatientInserted(i, ok)
  \/ \E i \in DOMAIN calls, ok \in BOOLEAN : registerPatientCounterUpdated(i, ok)
  \/ \E id \in PatientIds :
       /\ Len(calls) < MaxStoreCalls
       /\ completeConsultationStart(id, None)
  \/ \E i \in DOMAIN calls, receiptOk \in BOOLEAN, patientOk \in BOOLEAN :
       completeConsultationWritten(i, receiptOk, patientOk)
  \/ \E id \in PatientIds :
       /\ Len(calls) < MaxStoreCalls
       /\ removePatientStart(id)
  \/ \E i \in DOMAIN calls, ok \in BOOLEAN : removePatientDeleted(i, ok)
  \/ loadDataFetch
  \/ loadDataDispatch

SpecStoreRemove == InitStoreBacked /\ [][NextStoreRemove]_vars

(***************************************************************************)
(* Scanning and dispensing under the store-backed provider.  The visit is  *)
(* over: patient u1 was registered, prescribed for (u2, forwarded) and     *)
(* completed, which minted receipt u3; local state and store agree.        *)
(***************************************************************************)
prescriptionToDbPrescription(p) ==
  [id |-> p.id, patient_id |-> p.patientId, token_number |-> p.tokenNumber,
   department |-> p.department, diagnosis |-> p.diagnosis, status |-> p.status,
   doctor_verified |-> p.doctorVerified, created_at |-> p.createdAt,
   forwarded_at |-> p.forwardedAt, dispensed_at |-> p.dispensedAt]

\* the patient, prescription and receipt of the finished visit
visitPrescription ==
  LET p == newPatient(uuidv4(1), Registration(FormX, "general_medicine"), 1, 0, 0)
      data == PrescriptionData(p, [status |-> "verified", doctorVerified |-> TRUE])
  IN [newPrescription(uuidv4(2), data, 0) EXCEPT !.status = "forwarded",
                                                  !.forwardedAt = Some(0)]

visitReceipt ==
  LET p == newPatient(uuidv4(1), Registration(FormX, "general_medicine"), 1, 0, 0)
      prescribed == [p EXCEPT !.prescriptionId = Some(visitPrescription.id),
                              !.diagnosis = Some(visitPrescription.diagnosis)]
  IN newReceipt(uuidv4(3), prescribed, None, <<visitPrescription>>, 0)

visitPatient ==
  [newPatient(uuidv4(1), Registration(FormX, "general_medicine"), 1, 0, 0)
     EXCEPT !.prescriptionId = Some(visitPrescription.id),
            !.diagnosis = Some(visitPrescription.diagnosis),
            !.status = "completed",
            !.receiptId = Some(visitReceipt.id),
            !.consultationEndTime = Some(0)]

InitStoreVisit ==
  /\ patients = <<visitPatient>>
  /\ prescriptions = <<visitPrescription>>
  /\ receipts = <<visitReceipt>>
  /\ tokenCounters = [d \in Department |-> IF d = "general_medicine" THEN 1 ELSE 0]
  /\ now = 0
  /\ nextUuid = 3
  /\ last = Called("init", << >>, "none", None)
  /\ issued = [d \in Department |-> << >>]
  /\ calls = << >>
  /\ \E token_unique \in BOOLEAN :
       store = [token_unique |-> token_unique,
                patients |-> {patientToDbPatient(visitPatient)},
                prescriptions |-> {prescriptionToDbPrescription(visitPrescription)},
                receipts |-> {receiptToDbReceipt(visitReceipt)},
                token_counters |-> tokenCounters]
  /\ reload = [pending |-> FALSE, snapshot |-> None]

\* the reducer's UPDATE_PRESCRIPTION and UPDATE_RECEIPT: the record takes the
\* place of the one that carries its id
replaceById(s, record) ==
  [i \in DOMAIN s |-> IF s[i].id = record.id THEN record ELSE s[i]]

\* scanReceipt up to its await: the receipt is read from the rendered state
\* and the update is on its way; an unknown id returns null at once
scanReceiptStart(receiptId) ==
  LET receipt == FindById(receipts, receiptId)
  IN /\ IF HasId(receipts, receiptId)
        THEN /\ calls' = Append(calls,
                           [op |-> "scanReceipt", pc |-> "update",
                            receiptId |-> receiptId, receipt |-> receipt,
                            updatedReceipt |-> scanned(receipt), toast |-> "none",
                            overlapped |-> InFlight])
             /\ last' = last
        ELSE /\ last' = Called("scanReceipt", <<receiptId>>, "none", None)
             /\ calls' = calls
     /\ UNCHANGED <<patients, prescriptions, receipts, tokenCounters, now, nextUuid,
                    issued, store, reload>>

\* the update of scan_count and status answers; then UPDATE_RECEIPT with the
\* copy made at the start, and the fraud alert if that copy had been scanned
scanReceiptUpdated(i, ok) ==
  LET c == calls[i]
      row(r) == IF r.id = c.receiptId
                THEN [r EXCEPT !.scan_count = c.updatedReceipt.scanCount,
                               !.status = c.updatedReceipt.status]
                ELSE r
      toast == IF ~ok THEN "Failed to scan receipt"
               ELSE IF c.receipt.scanCount >= 1
               THEN "FRAUD ALERT: This receipt has already been used!"
               ELSE "none"
  IN /\ c.op = "scanReceipt" /\ c.pc = "update"
     /\ IF ok
        THEN /\ store' = [store EXCEPT !.receipts = {row(r) : r \in @}]
             /\ reload' = IF \E r \in store.receipts : r.id = c.receiptId
                          THEN Notified ELSE reload
             /\ receipts' = replaceById(receipts, c.updatedReceipt)
             /\ last' = Called("scanReceipt", <<c.receiptId>>, toast, Some(c.updatedReceipt))
        ELSE /\ last' = Called("scanReceipt", <<c.receiptId>>, toast, None)
             /\ UNCHANGED <<store, reload, receipts>>
     /\ calls' = [calls EXCEPT ![i].pc = IF ok THEN "done" ELSE "failed",
                               ![i].toast = toast]
     /\ UNCHANGED <<patients, prescriptions, tokenCounters, now, nextUuid, issued>>

\* dispenseMedicine up to its first await: the prescription and the receipts
\* are those of the rendered state; an unknown id returns at once
dispenseMedicineStart(prescriptionId) ==
  LET prescription == FindById(prescriptions, prescriptionId)
  IN /\ IF HasId(prescriptions, prescriptionId)
        THEN /\ calls' = Append(calls,
                           [op |-> "dispenseMedicine", pc |-> "prescription",
                            prescriptionId |-> prescriptionId,
                            updatedPrescription |->
                              [prescription EXCEPT !.status = "dispensed",
                                                   !.dispensedAt = Some(now)],
                            receipts |-> receipts,
                            overlapped |-> InFlight])
             /\ last' = last
        ELSE /\ last' = Called("dispenseMedicine", <<prescriptionId>>, "none", None)
             /\ calls' = calls
     /\ UNCHANGED <<patients, prescriptions, receipts, tokenCounters, now, nextUuid,
                    issued, store, reload>>

\* the update of the prescription's row answers; an error ends the call
dispenseMedicinePrescriptionUpdated(i, ok) ==
  LET c == calls[i]
      row(r) == IF r.id = c.prescriptionId
                THEN [r EXCEPT !.status = "dispensed", !.dispensed_at = Some(now)]
                ELSE r
  IN /\ c.op = "dispenseMedicine" /\ c.pc = "prescription"
     /\ IF ok
        THEN /\ store' = [store EXCEPT !.prescriptions = {row(r) : r \in @}]
             /\ reload' = IF \E r \in store.prescriptions : r.id = c.prescriptionId
                          THEN Notified ELSE reload
             /\ calls' = [calls EXCEPT ![i].pc = "receipts"]
             /\ last' = last
        ELSE /\ calls' = [calls EXCEPT ![i].pc = "failed"]
             /\ last' = Called("dispenseMedicine", <<c.prescriptionId>>,
                               "Failed to dispense medicine", None)
             /\ UNCHANGED <<store, reload>>
     /\ UNCHANGED <<patients, prescriptions, receipts, tokenCounters, now, nextUuid, issued>>

\* the receipts the call read at its start, those of the prescription marked
\* dispensed: what lines 794-803 dispatch as UPDATE_RECEIPT, one by one
RECURSIVE updateReceipts(_, _, _)
updateReceipts(local, read, prescriptionId) ==
  IF read = << >> THEN local
  ELSE LET r == Head(read)
           next == IF r.prescriptionId = Some(prescriptionId)
                   THEN replaceById(local, [r EXCEPT !.prescriptionStatus = Some("dispensed")])
                   ELSE local
       IN updateReceipts(next, Tail(read), prescriptionId)

\* the update of the receipts' rows answers; its error is not looked at, and
\* UPDATE_PRESCRIPTION and the UPDATE_RECEIPTs follow either way
dispenseMedicineReceiptsUpdated(i, ok) ==
  LET c == calls[i]
      row(r) == IF r.prescription_id = Some(c.prescriptionId)
                THEN [r EXCEPT !.prescription_status = Some("dispensed")] ELSE r
  IN /\ c.op = "dispenseMedicine" /\ c.pc = "receipts"
     /\ IF ok
        THEN /\ store' = [store EXCEPT !.receipts = {row(r) : r \in @}]
             /\ reload' = IF \E r \in store.receipts : r.prescription_id = Some(c.prescriptionId)
                          THEN Notified ELSE reload
        ELSE UNCHANGED <<store, reload>>
     /\ prescriptions' = replaceById(prescriptions, c.updatedPrescription)
     /\ receipts' = updateReceipts(receipts, c.receipts, c.prescriptionId)
     /\ calls' = [calls EXCEPT ![i].pc = "done"]
     /\ last' = Called("dispenseMedicine", <<c.prescriptionId>>,
                       "Medicines dispensed successfully", None)
     /\ UNCHANGED <<patients, tokenCounters, now, nextUuid, issued>>

NextStoreScan ==
  \/ \E id \in ReceiptIds :
       /\ Len(calls) < MaxScanCalls
       /\ scanReceiptStart(id)
  \/ \E i \in DOMAIN calls, ok \in BOOLEAN : scanReceiptUpdated(i, ok)
  \/ \E id \in PrescriptionIds :
       /\ Len(calls) < MaxScanCalls
       /\ dispenseMedicineStart(id)
  \/ \E i \in DOMAIN calls, ok \in BOOLEAN : dispenseMedicinePrescriptionUpdated(i, ok)
  \/ \E i \in DOMAIN calls, ok \in BOOLEAN : dispenseMedicineReceiptsUpdated(i, ok)
  \/ loadDataFetch
  \/ loadDataDispatch

SpecStoreScan == InitStoreVisit /\ [][NextStoreScan]_vars

(***************************************************************************)
(* Late arrivals and escalations under the store-backed provider.  Patient *)
(* u1 has been registered and waits; local state and store agree.          *)
(***************************************************************************)
queuedPatient == newPatient(uuidv4(1), Registration(FormX, "general_medicine"), 1, 0, 0)

InitStoreQueued ==
  /\ patients = <<queuedPatient>>
  /\ prescriptions = << >>
  /\ receipts = << >>
  /\ tokenCounters = [d \in Department |-> IF d = "general_medicine" THEN 1 ELSE 0]
  /\ now = 0
  /\ nextUuid = 1
  /\ last = Called("init", << >>, "none", None)
  /\ issued = [d \in Department |-> << >>]
  /\ calls = << >>
  /\ \E token_unique \in BOOLEAN :
       store = [token_unique |-> token_unique,
                patients |-> {patientToDbPatient(queuedPatient)},
                prescriptions |-> {}, receipts |-> {},
                token_counters |-> tokenCounters]
  /\ reload = [pending |-> FALSE, snapshot |-> None]

\* the levels the staff card escalates to
StaffLevelInputs == {1, 2}

\* markLateArrival up to its await: the patient is read from the rendered
\* state and the update is on its way; an unknown id returns at once
markLateArrivalStart(patientId) ==
  LET patient == FindById(patients, patientId)
  IN /\ IF HasId(patients, patientId)
        THEN /\ calls' = Append(calls,
                           [op |-> "markLateArrival", pc |-> "update",
                            patientId |-> patientId, level |-> patient.escalationLevel,
                            updatedPatient |-> [patient EXCEPT !.isLateArrival = TRUE],
                            overlapped |-> InFlight])
             /\ last' = last
        ELSE /\ last' = Called("markLateArrival", <<patientId>>, "none", None)
             /\ calls' = calls
     /\ UNCHANGED <<patients, prescriptions, receipts, tokenCounters, now, nextUuid,
                    issued, store, reload>>

\* escalate up to its await
escalateStart(patientId, level) ==
  LET patient == FindById(patients, patientId)
  IN /\ IF HasId(patients, patientId)
        THEN /\ calls' = Append(calls,
                           [op |-> "escalate", pc |-> "update",
                            patientId |-> patientId, level |-> level,
                            updatedPatient |-> [patient EXCEPT !.escalationLevel = level],
                            overlapped |-> InFlight])
             /\ last' = last
        ELSE /\ last' = Called("escalate", <<patientId, level>>, "none", None)
             /\ calls' = calls
     /\ UNCHANGED <<patients, prescriptions, receipts, tokenCounters, now, nextUuid,
                    issued, store, reload>>

\* the update of the patient's row answers: the store sets the one column the
\* call names; then UPDATE_PATIENT with the copy made at the start
patientUpdated(i, ok) ==
  LET c == calls[i]
      row(r) == IF r.id # c.patientId THEN r
                ELSE IF c.op = "markLateArrival" THEN [r EXCEPT !.is_late_arrival = TRUE]
                ELSE [r EXCEPT !.escalation_level = c.level]
      done == IF c.op = "markLateArrival" THEN "Patient marked as late arrival"
              ELSE "Priority escalated to level " \o ToString(c.level)
      failed == IF c.op = "markLateArrival" THEN "Failed to mark late arrival"
                ELSE "Failed to escalate priority"
  IN /\ c.op \in {"markLateArrival", "escalate"} /\ c.pc = "update"
     /\ IF ok
        THEN /\ store' = [store EXCEPT !.patients = {row(r) : r \in @}]
             /\ reload' = IF \E r \in store.patients : r.id = c.patientId
                          THEN Notified ELSE reload
             /\ patients' = sortQueueByPriority(replaceById(patients, c.updatedPatient),
                                                None, now)
             /\ calls' = [calls EXCEPT ![i].pc = "done"]
             /\ last' = Called(c.op, <<c.patientId>>, done, None)
        ELSE /\ calls' = [calls EXCEPT ![i].pc = "failed"]
             /\ last' = Called(c.op, <<c.patientId>>, failed, None)
             /\ UNCHANGED <<store, reload, patients>>
     /\ UNCHANGED <<prescriptions, receipts, tokenCounters, now, nextUuid, issued>>

NextStoreStaff ==
  \/ \E id \in PatientIds :
       /\ Len(calls) < MaxStaffCalls
       /\ markLateArrivalStart(id)
  \/ \E id \in PatientIds, level \in StaffLevelInputs :
       /\ Len(calls) < MaxStaffCalls
       /\ escalateStart(id, level)
  \/ \E i \in DOMAIN calls, ok \in BOOLEAN : patientUpdated(i, ok)
  \/ loadDataFetch
  \/ loadDataDispatch

SpecStoreStaff == InitStoreQueued /\ [][NextStoreStaff]_vars

(***************************************************************************)
(* The doctor's panel on the store-backed provider (src/unnamed/part_003). *)
(* Patient u1 has been registered and is in consultation; local state and  *)
(* store agree.                                                            *)
(***************************************************************************)
consultedPatient == [queuedPatient EXCEPT !.status = "consultation"]

InitStoreConsulting ==
  /\ patients = <<consultedPatient>>
  /\ prescriptions = << >>
  /\ receipts = << >>
  /\ tokenCounters = [d \in Department |-> IF d = "general_medicine" THEN 1 ELSE 0]
  /\ now = 0
  /\ nextUuid = 1
  /\ last = Called("init", << >>, "none", None)
  /\ issued = [d \in Department |-> << >>]
  /\ calls = << >>
  /\ \E token_unique \in BOOLEAN :
       store = [token_unique |-> token_unique,
                patients |-> {patientToDbPatient(consultedPatient)},
                prescriptions |-> {}, receipts |-> {},
                token_counters |-> tokenCounters]
  /\ reload = [pending |-> FALSE, snapshot |-> None]

\* what an async function returns to a caller that does not await it
PendingPromise == "[object Promise]"

\* handleForwardAndComplete, one event handler run to its end: createPrescription
\* runs to its first await and returns a promise; forwardPrescription is called
\* with that promise, finds no prescription carrying it as id in the rendered
\* state and returns; completeConsultation runs to its await, reading the patient
\* and the prescriptions of the rendered state
handleForwardAndComplete(patientId) ==
  LET selectedPatient == FindById(patients, patientId)
      id == uuidv4(nextUuid + 1)
      prescription ==
        newPrescription(id, PrescriptionData(selectedPatient,
                                             [status |-> "verified", doctorVerified |-> TRUE]),
                        now)
      prescriptionId == PendingPromise
      diagnosis == Some(prescription.diagnosis)
      receiptId == uuidv4(nextUuid + 2)
      updatedPatient == [selectedPatient EXCEPT
                           !.status = "completed",
                           !.receiptId = Some(receiptId),
                           !.diagnosis = OrElse(diagnosis, selectedPatient.diagnosis),
                           !.consultationEndTime = Some(now)]
  IN /\ HasId(patients, patientId)
     /\ ~HasId(prescriptions, prescriptionId)
     /\ calls' = calls \o
                 << [op |-> "createPrescription", pc |-> "insert",
                     patientId |-> patientId, prescription |-> prescription,
                     patient |-> selectedPatient, overlapped |-> InFlight],
                    [op |-> "completeConsultation", pc |-> "write",
                     patientId |-> patientId,
                     newReceipt |-> newReceipt(receiptId, selectedPatient, diagnosis,
                                               prescriptions, now),
                     updatedPatient |-> updatedPatient,
                     overlapped |-> InFlight \cup {Len(calls) + 1}] >>
     /\ nextUuid' = nextUuid + 2
     /\ last' = Called("forwardPrescription", <<prescriptionId>>, "none", None)
     /\ UNCHANGED <<patients, prescriptions, receipts, tokenCounters, now, issued,
                    store, reload>>

\* the insert into prescriptions answers; the table takes the row only while
\* its patient is stored
createPrescriptionInserted(i, ok) ==
  LET c == calls[i]
  IN /\ c.op = "createPrescription" /\ c.pc = "insert"
     /\ IF ok /\ \E r \in store.patients : r.id = c.patientId
        THEN /\ store' = [store EXCEPT
                            !.prescriptions = @ \cup {prescriptionToDbPrescription(c.prescription)}]
             /\ reload' = Notified
             /\ calls' = [calls EXCEPT ![i].pc = "patient"]
             /\ last' = last
        ELSE /\ calls' = [calls EXCEPT ![i].pc = "failed"]
             /\ last' = Called("createPrescription", <<c.patientId>>,
                               "Failed to create prescription", None)
             /\ UNCHANGED <<store, reload>>
     /\ UNCHANGED <<patients, prescriptions, receipts, tokenCounters, now, nextUuid, issued>>

\* the update of the patient's row answers; then ADD_PRESCRIPTION, and
\* UPDATE_PATIENT with the patient of the state the call was made in
createPrescriptionPatientUpdated(i, ok) ==
  LET c == calls[i]
      id == c.prescription.id
      row(r) == IF r.id = c.patientId
                THEN [r EXCEPT !.prescription_id = Some(id),
                               !.diagnosis = Some(c.prescription.diagnosis)]
                ELSE r
  IN /\ c.op = "createPrescription" /\ c.pc = "patient"
     /\ IF ok
        THEN /\ store' = [store EXCEPT !.patients = {row(r) : r \in @}]
             /\ reload' = IF \E r \in store.patients : r.id = c.patientId
                          THEN Notified ELSE reload
             /\ prescriptions' = Append(prescriptions, c.prescription)
             /\ patients' = sortQueueByPriority(
                              replaceById(patients,
                                          [c.patient EXCEPT
                                             !.prescriptionId = Some(id),
                                             !.diagnosis = Some(c.prescription.diagnosis)]),
                              None, now)
             /\ calls' = [calls EXCEPT ![i].pc = "done"]
             /\ last' = Called("createPrescription", <<c.patientId>>, "none", Some(id))
        ELSE /\ calls' = [calls EXCEPT ![i].pc = "failed"]
             /\ last' = Called("createPrescription", <<c.patientId>>,
                               "Failed to create prescription", None)
             /\ UNCHANGED <<store, reload, prescriptions, patients>>
     /\ UNCHANGED <<receipts, tokenCounters, now, nextUuid, issued>>

\* forwardPrescription up to its await; an id no prescription of the rendered
\* state carries returns at once
forwardPrescriptionStart(prescriptionId) ==
  LET prescription == FindById(prescriptions, prescriptionId)
  IN /\ IF HasId(prescriptions, prescriptionId)
        THEN /\ calls' = Append(calls,
                           [op |-> "forwardPrescription", pc |-> "update",
                            prescriptionId |-> prescriptionId,
                            updatedPrescription |->
                              [prescription EXCEPT !.status = "forwarded",
                                                   !.forwardedAt = Some(now)],
                            overlapped |-> InFlight])
             /\ last' = last
        ELSE /\ last' = Called("forwardPrescription", <<prescriptionId>>, "none", None)
             /\ calls' = calls
     /\ UNCHANGED <<patients, prescriptions, receipts, tokenCounters, now, nextUuid,
                    issued, store, reload>>

\* the update of the prescription's row answers; then UPDATE_PRESCRIPTION
forwardPrescriptionUpdated(i, ok) ==
  LET c == calls[i]
      row(r) == IF r.id = c.prescriptionId
                THEN [r EXCEPT !.status = "forwarded", !.forwarded_at = Some(now)]
                ELSE r
  IN /\ c.op = "forwardPrescription" /\ c.pc = "update"
     /\ IF ok
        THEN /\ store' = [store EXCEPT !.prescriptions = {row(r) : r \in @}]
             /\ reload' = IF \E r \in store.prescriptions : r.id = c.prescriptionId
                          THEN Notified ELSE reload
             /\ prescriptions' = replaceById(prescriptions, c.updatedPrescription)
             /\ calls' = [calls EXCEPT ![i].pc = "done"]
             /\ last' = Called("forwardPrescription", <<c.prescriptionId>>,
                               "Prescription forwarded to Medicine Department", None)
        ELSE /\ calls' = [calls EXCEPT ![i].pc = "failed"]
             /\ last' = Called("forwardPrescription", <<c.prescriptionId>>,
                               "Failed to forward prescription", None)
             /\ UNCHANGED <<store, reload, prescriptions>>
     /\ UNCHANGED <<patients, receipts, tokenCounters, now, nextUuid, issued>>

\* getForwardedPrescriptions(): the prescriptions the medicine desk lists
getForwardedPrescriptions ==
  LET isForwarded(p) == p.status = "forwarded"
  IN SelectSeq(prescriptions, isForwarded)

NextStoreDoctor ==
  \/ \E i \in DOMAIN patients :
       /\ Len(calls) + 2 <= MaxDoctorCalls
       /\ handleForwardAndComplete(patients[i].id)
  \/ \E i \in DOMAIN calls, ok \in BOOLEAN : createPrescriptionInserted(i, ok)
  \/ \E i \in DOMAIN calls, ok \in BOOLEAN : createPrescriptionPatientUpdated(i, ok)
  \/ \E i \in DOMAIN calls, receiptOk \in BOOLEAN, patientOk \in BOOLEAN :
       completeConsultationWritten(i, receiptOk, patientOk)
  \/ \E id \in PrescriptionIds :
       /\ Len(calls) < MaxDoctorCalls
       /\ forwardPrescriptionStart(id)
  \/ \E i \in DOMAIN calls, ok \in BOOLEAN : forwardPrescriptionUpdated(i, ok)
  \/ loadDataFetch
  \/ loadDataDispatch

SpecStoreDoctor == InitStoreConsulting /\ [][NextStoreDoctor]_vars

(***************************************************************************)
(* Patient statuses under the reducer-only provider: patients are called,  *)
(* consulted, completed, marked and resolved as emergencies, and have      *)
(* their status set directly.                                              *)
(***************************************************************************)
NextQueue ==
  \/ \E form \in RegistrationInputs :
       /\ Len(patients) < MaxQueuePatients
       /\ registerPatient(Registration(form, "general_medicine"), 0)
  \/ \E d \in DeptInputs : callNext(d)
  \/ \E id \in PatientIds : startConsultation(id)
  \/ \E id \in PatientIds :
       /\ Len(receipts) < MaxQueueReceipts
       /\ completeConsultation(id, None)
  \/ \E id \in PatientIds : markEmergency(id)
  \/ \E id \in PatientIds : resolveEmergency(id)
  \/ \E id \in PatientIds, status \in PatientStatus : updateStatus(id, status)

SpecQueue == Init /\ [][NextQueue]_vars

(***************************************************************************)
(* Calling under the reducer-only provider: patients X and Y register in   *)
(* either department, the next patient of a department is called, and      *)
(* emergencies are marked and resolved.                                    *)
(***************************************************************************)
NextCall ==
  \/ \E form \in RegistrationInputs, d \in DeptInputs :
       /\ Len(patients) < MaxCallPatients
       /\ registerPatient(Registration(form, d), 0)
  \/ \E d \in DeptInputs : callNext(d)
  \/ \E id \in PatientIds : markEmergency(id)
  \/ \E id \in PatientIds : resolveEmergency(id)

SpecCall == Init /\ [][NextCall]_vars

(***************************************************************************)
(* The staff operations under the reducer-only provider: every operation   *)
(* that names a patient, called with the id of the patient in the queue    *)
(* and with an id no patient carries.                                      *)
(***************************************************************************)
\* the levels escalate is called with: EscalationLevel, and 3, which the type
\* excludes and nothing checks at run time
LevelInputs == {0, 1, 2, 3}

\* what the operations that name a patient show when they are done
SuccessToasts ==
  {"EMERGENCY", "Emergency resolved", "Patient marked as late arrival",
   "Priority escalated", "Consultation started",
   "Consultation completed - Receipt generated", "Patient removed from queue",
   "Patient transferred"}

NextStaff ==
  \/ \E d \in DeptInputs :
       /\ nextUuid < 2 * MaxStaffPatients
       /\ tokenCounters[d] < MaxStaffCounter
       /\ registerPatient(Registration(FormX, d), 0)
  \/ \E id \in PatientIds, status \in PatientStatus : updateStatus(id, status)
  \/ \E id \in PatientIds : markEmergency(id)
  \/ \E id \in PatientIds : resolveEmergency(id)
  \/ \E id \in PatientIds : markLateArrival(id)
  \/ \E id \in PatientIds, level \in LevelInputs : escalate(id, level)
  \/ \E id \in PatientIds : startConsultation(id)
  \/ \E id \in PatientIds :
       /\ Len(receipts) < MaxStaffReceipts
       /\ completeConsultation(id, None)
  \/ \E id \in PatientIds, d \in DeptInputs :
       /\ tokenCounters[d] < MaxStaffCounter
       /\ transferDepartment(id, d)
  \/ \E id \in PatientIds : removePatient(id)

SpecStaff == Init /\ [][NextStaff]_vars

(***************************************************************************)
(* Transfers under the reducer-only provider: patients register in         *)
(* general medicine, are called, marked as emergencies and escalated, and  *)
(* move between the departments.                                           *)
(***************************************************************************)
NextTransfer ==
  \/ /\ Len(patients) < MaxXferPatients
     /\ tokenCounters["general_medicine"] < MaxXferCounter
     /\ registerPatient(Registration(FormX, "general_medicine"), 0)
  \/ \E i \in DOMAIN patients, d \in DeptInputs :
       /\ tokenCounters[d] < MaxXferCounter
       /\ transferDepartment(patients[i].id, d)
  \/ \E d \in DeptInputs : callNext(d)
  \/ \E i \in DOMAIN patients : markEmergency(patients[i].id)
  \/ \E i \in DOMAIN patients : escalate(patients[i].id, 1)

SpecTransfer == Init /\ [][NextTransfer]_vars

(***************************************************************************)
(* The sorted queue.  sortQueueByPriority is a pure function of the        *)
(* patient list and the clock: the list is drawn from patients that differ *)
(* in score, arrival, status, emergency flag and department, and           *)
(* getSortedQueue is applied to it.                                        *)
(***************************************************************************)
\* what sets two drawn patients apart in score and arrival: at SortClock both
\* arrivals have waited past the cap of the wait bonus, so two patients of one
\* form score the same and the earlier arrival decides
ScoreInputs ==
  {[form |-> FormX, arrival |-> 0], [form |-> FormY, arrival |-> 0],
   [form |-> FormY, arrival |-> 50]}

\* status and isEmergency as the operations leave them
StatusInputs ==
  {[status |-> "waiting", isEmergency |-> FALSE],
   [status |-> "emergency", isEmergency |-> TRUE],
   [status |-> "called", isEmergency |-> FALSE], [status |-> "called", isEmergency |-> TRUE],
   [status |-> "consultation", isEmergency |-> FALSE],
   [status |-> "consultation", isEmergency |-> TRUE]}

\* a completed patient takes no part in the ordering: one of them is enough
CompletedInputs == {[status |-> "completed", isEmergency |-> FALSE]}

\* the department of the i-th drawn patient: the two departments in turn
drawnDepartment(i) == IF i % 2 = 0 THEN "pediatrics" ELSE "general_medicine"

\* the i-th patient of a drawn list
drawnPatient(i, d, score, st) ==
  [newPatient(uuidv4(i), Registration(score.form, d), i, score.arrival, 0)
     EXCEPT !.status = st.status, !.isEmergency = st.isEmergency]

\* what is drawn for one patient
DrawnInputs ==
  {[score |-> score, st |-> st] : score \in ScoreInputs, st \in StatusInputs}
    \cup {[score |-> [form |-> FormY, arrival |-> 0], st |-> st] : st \in CompletedInputs}

InitSort ==
  /\ \E n \in 0..MaxSortPatients :
       /\ \E drawn \in [1..n -> DrawnInputs] :
            patients = [i \in 1..n |->
                          drawnPatient(i, drawnDepartment(i), drawn[i].score, drawn[i].st)]
       /\ nextUuid = n
       /\ tokenCounters = [d \in Department |-> n]
  /\ prescriptions = << >>
  /\ receipts = << >>
  /\ now = SortClock
  /\ last = Called("init", << >>, "none", None)
  /\ issued = [d \in Department |-> << >>]
  /\ calls = << >>
  /\ store = initialStore(FALSE)
  /\ reload = [pending |-> FALSE, snapshot |-> None]

\* getSortedQueue(department?): the list a view renders
getSortedQueue(department) ==
  /\ last' = Called("getSortedQueue", <<department>>, "none",
                    Some(sortQueueByPriority(patients, department, now)))
  /\ UNCHANGED <<patients, prescriptions, receipts, tokenCounters, now, nextUuid,
                 issued, store, calls, reload>>

DepartmentFilters == {None} \cup {Some(d) : d \in DeptInputs}

NextSort == \E department \in DepartmentFilters : getSortedQueue(department)

SpecSort == InitSort /\ [][NextSort]_vars

(***************************************************************************)
(* The estimated wait.  estimateWaitTime is a pure function of the patient *)
(* list, the clock and the value Math.random() returns: the list is drawn  *)
(* from patients of either department in every status, the jitter from     *)
(* the ends and the rounding points of its range, in hundredths of a       *)
(* minute.                                                                 *)
(***************************************************************************)
\* Math.random() * 4 - 2 lies in [-2, 2)
JitterInputs == {-200, -151, -150, -51, -50, 0, 49, 50, 149, 150, 199}

\* Math.round of a number given in hundredths: the nearest integer, halves up
MathRound(hundredths) == (hundredths + 50) \div 100

\* estimateWaitTime were it to return the rounded estimate as it is
estimateWaitTimeUnclamped(patient, queue, t, variance) ==
  LET inDepartment(p) == p.department = patient.department
      isActive(p) == p.status \in {"waiting", "called", "consultation"}
      sorted == sortQueueByPriority(SelectSeq(SelectSeq(queue, inDepartment), isActive),
                                    Some(patient.department), t)
  IN IF ~HasId(sorted, patient.id) THEN 0
     ELSE LET position == (CHOOSE i \in DOMAIN sorted :
                             sorted[i].id = patient.id
                             /\ \A j \in 1..(i - 1) : sorted[j].id # patient.id) - 1
              avgTime == 10
          IN MathRound(position * avgTime * 100 + variance)

\* estimateWaitTime: minutes until the patient's turn, variance in hundredths
estimateWaitTime(patient, queue, t, variance) ==
  LET inDepartment(p) == p.department = patient.department
      isActive(p) == p.status \in {"waiting", "called", "consultation"}
      sorted == sortQueueByPriority(SelectSeq(SelectSeq(queue, inDepartment), isActive),
                                    Some(patient.department), t)
  IN IF ~HasId(sorted, patient.id) THEN 0
     ELSE LET position == (CHOOSE i \in DOMAIN sorted :
                             sorted[i].id = patient.id
                             /\ \A j \in 1..(i - 1) : sorted[j].id # patient.id) - 1
              avgTime == 10
          IN Max(0, MathRound(position * avgTime * 100 + variance))

\* getEstimatedWait(patientId): 0 for an id no patient carries
getEstimatedWait(patientId, variance) ==
  /\ last' = Called("getEstimatedWait", <<patientId>>, "none",
                    Some(IF ~HasId(patients, patientId) THEN 0
                         ELSE estimateWaitTime(FindById(patients, patientId), patients,
                                               now, variance)))
  /\ UNCHANGED <<patients, prescriptions, receipts, tokenCounters, now, nextUuid,
                 issued, store, calls, reload>>

\* what is drawn for one patient of the list the estimate is computed from
WaitInputs ==
  {[form |-> form, d |-> d, st |-> st] :
     form \in RegistrationInputs, d \in DeptInputs,
     st \in {[status |-> "waiting", isEmergency |-> FALSE],
             [status |-> "emergency", isEmergency |-> TRUE],
             [status |-> "called", isEmergency |-> FALSE],
             [status |-> "consultation", isEmergency |-> FALSE],
             [status |-> "completed", isEmergency |-> FALSE]}}

InitWait ==
  /\ \E n \in 0..MaxWaitPatients :
       /\ \E drawn \in [1..n -> WaitInputs] :
            patients = [i \in 1..n |->
                          drawnPatient(i, drawn[i].d,
                                       [form |-> drawn[i].form, arrival |-> 0], drawn[i].st)]
       /\ nextUuid = n
       /\ tokenCounters = [d \in Department |-> n]
  /\ prescriptions = << >>
  /\ receipts = << >>
  /\ now = SortClock
  /\ last = Called("init", << >>, "none", None)
  /\ issued = [d \in Department |-> << >>]
  /\ calls = << >>
  /\ store = initialStore(FALSE)
  /\ reload = [pending |-> FALSE, snapshot |-> None]

NextWait == \E id \in PatientIds, variance \in JitterInputs : getEstimatedWait(id, variance)

SpecWait == InitWait /\ [][NextWait]_vars

(***************************************************************************)
(* Draining a queue under the reducer-only provider: patients register in  *)
(* either department; once the doctors have begun to call, nobody          *)
(* registers any more and the doctors of both departments keep calling the *)
(* next patient.  A doctor who keeps pressing 'call next' is weak fairness *)
(* of callNext for that department.                                        *)
(***************************************************************************)
\* how many patients of the department wait
waitingCount(ps, department) ==
  Cardinality({i \in DOMAIN ps : ps[i].department = department /\ ps[i].status = "waiting"})

NextDrain ==
  \/ \E form \in RegistrationInputs, d \in DeptInputs :
       /\ Len(patients) < MaxDrainPatients
       /\ last.op # "callNext"
       /\ registerPatient(Registration(form, d), 0)
  \/ \E d \in DeptInputs : callNext(d)

\* ENABLED <<callNext(d)>>_vars: the call changes a patient while one waits,
\* and otherwise changes what was last shown unless that was its own report
callNextEnabled(d) ==
  \/ waitingCount(patients, d) > 0
  \/ last # Called("callNext", <<d>>, "No patients waiting in this department", None)

\* WF_vars(callNext(d)) with its ENABLED written out as callNextEnabled(d)
callNextFair(d) == []<>(~callNextEnabled(d)) \/ []<><<callNext(d)>>_vars

SpecDrain == Init /\ [][NextDrain]_vars /\ \A d \in DeptInputs : callNextFair(d)

(***************************************************************************)
(* Registration under the reducer-only provider: patients X and Y are      *)
(* registered in either department with any trust score registration       *)
(* assigns, and the sorted queue is read.                                  *)
(***************************************************************************)
NextRegister ==
  \/ Tick
  \/ \E form \in RegistrationInputs, d \in DeptInputs, v \in TrustVariance :
       /\ Len(patients) < MaxRegPatients
       /\ registerPatient(Registration(form, d), v)
  \/ \E department \in DepartmentFilters : getSortedQueue(department)

SpecRegister == Init /\ [][NextRegister]_vars

(***************************************************************************)
(* The priority score.  calculatePriorityScore is a pure function of one   *)
(* patient and the clock: the patient's attributes are drawn from the ends *)
(* and the thresholds of their ranges, the clock from before and after the *)
(* arrival, and the score is computed.                                     *)
(***************************************************************************)
AgeInputs == {0, 5, 6, 59, 60, 120}
SeverityInputs == {"mild", "moderate", "severe"}
VisitTypeInputs == {"routine", "followup", "referral"}
TrustInputs == {0, 100}
AllVulnerabilities ==
  [elderly |-> TRUE, pregnant |-> TRUE, disabled |-> TRUE, chronicCondition |-> TRUE]
VulnerabilityInputs ==
  {NoVulnerabilities, AllVulnerabilities, [NoVulnerabilities EXCEPT !.pregnant = TRUE]}
\* minutes, the patient arriving at 50: at the arrival, a minute and 99, 100 and 400 minutes after it,
\* and, the clock having been set back, before it
ClockInputs == {0, 50, 51, 149, 150, 450}

\* a patient with the drawn attributes
scoredPatient(age, severity, vulnerabilities, visitType, trust, level, late) ==
  [newPatient(uuidv4(1),
              [age |-> age, symptomSeverity |-> severity, vulnerabilities |-> vulnerabilities,
               visitType |-> visitType, department |-> "general_medicine"],
              1, 50, 0)
     EXCEPT !.trustScore = trust, !.escalationLevel = level, !.isLateArrival = late]

InitScore ==
  /\ \E age \in AgeInputs, severity \in SeverityInputs,
        vulnerabilities \in VulnerabilityInputs, visitType \in VisitTypeInputs,
        trust \in TrustInputs, level \in EscalationLevel, late \in BOOLEAN :
       patients = <<scoredPatient(age, severity, vulnerabilities, visitType, trust, level, late)>>
  /\ now \in ClockInputs
  /\ nextUuid = 1
  /\ tokenCounters = [d \in Department |-> IF d = "general_medicine" THEN 1 ELSE 0]
  /\ prescriptions = << >>
  /\ receipts = << >>
  /\ last = Called("init", << >>, "none", None)
  /\ issued = [d \in Department |-> << >>]
  /\ calls = << >>
  /\ store = initialStore(FALSE)
  /\ reload = [pending |-> FALSE, snapshot |-> None]

\* the score the comparator computes for the i-th patient
priorityScore(i) ==
  /\ last' = Called("calculatePriorityScore", <<patients[i].id>>, "none",
                    Some(calculatePriorityScore(patients[i], now)))
  /\ UNCHANGED <<patients, prescriptions, receipts, tokenCounters, now, nextUuid,
                 issued, store, calls, reload>>

NextScore == \E i \in DOMAIN patients : priorityScore(i)

SpecScore == InitScore /\ [][NextScore]_vars

(***************************************************************************)
(* Token allocation.                                                       *)
(***************************************************************************)
\* C1: two registerPatient calls for one department that overlap (the later
\* started while the earlier was in flight) never hold the same counter
\* value, so they never produce the same token.
C1_OverlappingRegistrationsDiffer ==
  \A j \in DOMAIN calls : \A i \in calls[j].overlapped :
    calls[i].department = calls[j].department =>
      /\ calls[i].newCounter # calls[j].newCounter
      /\ calls[i].newPatient.tokenNumber # calls[j].newPatient.tokenNumber

\* C2: at every step each department's counter does not decrease and equals
\* the number of tokens issued in the department, and the counters those
\* tokens carry are 1..n in issue order, without gaps.
C2_CounterCountsIssuedTokens ==
  [][\A d \in Department :
       /\ tokenCounters'[d] >= tokenCounters[d]
       /\ tokenCounters'[d] = Len(issued'[d])
       /\ \A i \in DOMAIN issued'[d] : issued'[d][i] = i]_vars

\* C3: no two patient records carry the same tokenNumber, and every patient's
\* token prefix is the prefix of the patient's current department.
C3_TokensUniqueAndPrefixed ==
  /\ \A i, j \in DOMAIN patients :
       i # j => patients[i].tokenNumber # patients[j].tokenNumber
  /\ \A i \in DOMAIN patients :
       SubSeq(patients[i].tokenNumber, 1, 2) = prefixes(patients[i].department)

(***************************************************************************)
(* The prescription workflow.                                              *)
(***************************************************************************)
\* C4: dispenseMedicine on a prescription that is already dispensed leaves
\* the prescriptions as they are (dispensedAt keeps the first stamp) and does
\* not report a successful dispense.
C4_RedispenseLeavesPrescription ==
  [][\A i \in DOMAIN prescriptions :
       (prescriptions[i].status = "dispensed" /\ dispenseMedicine(prescriptions[i].id))
         => /\ prescriptions' = prescriptions
            /\ last'.toast # "Medicines dispensed successfully"]_vars

\* C5: once a prescription's status is dispensed, no step changes it.
C5_DispensedIsTerminal ==
  [][\A i \in DOMAIN prescriptions :
       prescriptions[i].status = "dispensed" => prescriptions'[i].status = "dispensed"]_vars

\* C6: a prescription's status becomes forwarded only from verified and
\* becomes dispensed only from forwarded.
C6_ForwardAfterVerifyDispenseAfterForward ==
  [][\A i \in DOMAIN prescriptions :
       /\ (prescriptions'[i].status = "forwarded" /\ prescriptions[i].status # "forwarded")
            => prescriptions[i].status = "verified"
       /\ (prescriptions'[i].status = "dispensed" /\ prescriptions[i].status # "dispensed")
            => prescriptions[i].status = "forwarded"]_vars

\* C7: a prescription whose status is forwarded or dispensed has
\* doctorVerified = true.
C7_ForwardedIsDoctorVerified ==
  \A i \in DOMAIN prescriptions :
    prescriptions[i].status \in {"forwarded", "dispensed"} => prescriptions[i].doctorVerified

\* C8: forwardedAt is set only when the status is forwarded or dispensed,
\* dispensedAt only when it is dispensed, and dispensedAt, once set, never
\* changes.
C8_StampsFollowStatus ==
  [][\A i \in DOMAIN prescriptions :
       /\ prescriptions'[i].forwardedAt # None
            => prescriptions'[i].status \in {"forwarded", "dispensed"}
       /\ prescriptions'[i].dispensedAt # None => prescriptions'[i].status = "dispensed"
       /\ prescriptions[i].dispensedAt # None
            => prescriptions'[i].dispensedAt = prescriptions[i].dispensedAt]_vars

C10_ScanCountsAndFlags ==
  [][\A i \in DOMAIN receipts :
       /\ receipts[i].scanCount = 0 => receipts[i].status = "active"
       /\ scanReceipt(receipts[i].id) =>
            /\ receipts'[i].scanCount = receipts[i].scanCount + 1
            /\ receipts[i].scanCount = 0 =>
                 /\ receipts'[i].status = "active"
                 /\ last'.toast = "none"
            /\ receipts[i].scanCount >= 1 =>
                 /\ receipts'[i].status = "fulfilled"
                 /\ last'.toast = "FRAUD ALERT: This receipt has already been used!"]_vars

\* C10: a receipt has been scanned three times; the last scan raised the
\* fraud signal and the receipt is fulfilled.
C10_ScannedThrice ==
  /\ last.op = "scanReceipt"
  /\ last.toast = "FRAUD ALERT: This receipt has already been used!"
  /\ \E i \in DOMAIN receipts :
       /\ last.args = <<receipts[i].id>>
       /\ receipts[i].scanCount = 3
       /\ receipts[i].status = "fulfilled"

\* C11: scanReceipt returns the receipt as it is after the scan (scanCount
\* one higher than before, the status this scan gives); for an unknown
\* receipt id it returns null and changes nothing.
C11_ScanReturnsScannedReceipt ==
  [][\A id \in ReceiptIds :
       scanReceipt(id) =>
         IF HasId(receipts, id)
         THEN /\ last'.ret = Some(FindById(receipts', id))
              /\ last'.ret[1].scanCount = FindById(receipts, id).scanCount + 1
         ELSE /\ last'.ret = None
              /\ receipts' = receipts]_vars

\* C12: a receipt's status is fulfilled exactly when its scanCount is at
\* least 2, and active exactly when its scanCount is 0 or 1.
C12_StatusFollowsScanCount ==
  \A i \in DOMAIN receipts :
    /\ receipts[i].status = "fulfilled" <=> receipts[i].scanCount >= 2
    /\ receipts[i].status = "active" <=> receipts[i].scanCount \in {0, 1}

\* C12: one receipt has been scanned once and is active while another has
\* been scanned twice and is fulfilled.
C12_OnceAndTwiceScanned ==
  \E i, j \in DOMAIN receipts :
    /\ receipts[i].scanCount = 1 /\ receipts[i].status = "active"
    /\ receipts[j].scanCount = 2 /\ receipts[j].status = "fulfilled"

\* C13: no patient has two receipts, and a patient's receiptId names the
\* only receipt whose patientId is that patient.
C13_OneReceiptPerVisit ==
  /\ \A i, j \in DOMAIN receipts :
       i # j => receipts[i].patientId # receipts[j].patientId
  /\ \A k \in DOMAIN patients, i \in DOMAIN receipts :
       receipts[i].patientId = patients[k].id
         => patients[k].receiptId = Some(receipts[i].id)

(***************************************************************************)
(* Patient statuses.                                                       *)
(***************************************************************************)
\* C14: once a patient's status is completed, no step changes that patient's
\* status.
C14_CompletedIsTerminal ==
  [][\A i \in DOMAIN patients, j \in DOMAIN patients' :
       (patients[i].status = "completed" /\ patients'[j].id = patients[i].id)
         => patients'[j].status = "completed"]_vars

C16_EmergencyFirstWithinStatus ==
  last.op = "getSortedQueue" =>
    LET q == last.ret[1]
        rank(p) == IF p.status = "called" THEN 1
                   ELSE IF p.status = "consultation" THEN 2 ELSE 3
    IN \A i, j \in DOMAIN q :
         ( /\ q[i].status # "completed" /\ q[j].status # "completed"
           /\ rank(q[i]) = rank(q[j])
           /\ q[i].isEmergency /\ ~q[j].isEmergency ) => i < j

\* C16: the returned list opens with an emergency patient whose score is lower
\* and whose arrival is later than those of the waiting patient behind it.
C16_LowScoreEmergencyLeads ==
  /\ last.op = "getSortedQueue"
  /\ Len(last.ret[1]) >= 2
  /\ LET q == last.ret[1]
     IN /\ q[1].isEmergency /\ q[1].status = "emergency"
        /\ q[1].age = FormY.age /\ q[1].arrivalTime = 50
        /\ q[2].status = "waiting" /\ ~q[2].isEmergency
        /\ q[2].age = FormX.age /\ q[2].arrivalTime = 0
        /\ calculatePriorityScore(q[2], now) > calculatePriorityScore(q[1], now)

C18_PermutationCompletedLast ==
  last.op = "getSortedQueue" =>
    LET q == last.ret[1]
        dept == last.args[1]
        inDept(p) == dept = None \/ p.department = dept[1]
        isCompleted(p) == p.status = "completed"
        filtered == SelectSeq(patients, inDept)
    IN /\ Len(q) = Len(filtered)
       /\ Range(q) = Range(filtered)
       /\ \A i, j \in DOMAIN q :
            (q[i].status = "completed" /\ q[j].status # "completed") => j < i
       /\ SelectSeq(q, isCompleted) = SelectSeq(filtered, isCompleted)

\* C18: two completed patients that came first and last in the input follow
\* the active patient in the returned list, in their input order.
C18_CompletedMovedBehind ==
  /\ last.op = "getSortedQueue"
  /\ last.args = <<None>>
  /\ Len(patients) = 3
  /\ patients[1].status = "completed"
  /\ patients[2].status # "completed"
  /\ patients[3].status = "completed"
  /\ last.ret[1] = <<patients[2], patients[1], patients[3]>>

\* C19: getSortedQueue(d) returns exactly the patients of department d, in
\* the order they have in getSortedQueue(); the unfiltered call returns the
\* patients of all departments, in comparator order with the completed last.
C19_FilterCommutesWithSort ==
  last.op = "getSortedQueue" =>
    LET q == last.ret[1]
        dept == last.args[1]
        inDept(p) == p.department = dept[1]
        all == sortQueueByPriority(patients, None, now)
    IN IF dept = None
       THEN /\ Range(q) = Range(patients)
            /\ Len(q) = Len(patients)
            /\ \A i, j \in DOMAIN q :
                 (i < j /\ q[i].status # "completed" /\ q[j].status # "completed")
                   => compare(q[i], q[j], now) <= 0
            /\ \A i, j \in DOMAIN q :
                 (q[i].status = "completed" /\ q[j].status # "completed") => j < i
       ELSE /\ q = SelectSeq(all, inDept)
            /\ Range(q) = {p \in Range(patients) : p.department = dept[1]}

\* C19: getSortedQueue(general_medicine) has returned two patients in the
\* reverse of their input order, leaving out the pediatrics patient that the
\* unfiltered queue ranks between them.
C19_FilteredAroundOtherDepartment ==
  /\ last.op = "getSortedQueue"
  /\ last.args = <<Some("general_medicine")>>
  /\ Len(patients) = 3
  /\ patients[2].department = "pediatrics"
  /\ last.ret[1] = <<patients[3], patients[1]>>
  /\ sortQueueByPriority(patients, None, now) = <<patients[3], patients[2], patients[1]>>

(***************************************************************************)
(* The priority score.                                                     *)
(***************************************************************************)
\* C20: for a patient with age 0..120, trust 0..100 and escalation 0..2, at
\* every clock value, the score is at least 0, the wait bonus is at most its
\* cap of 50, and the score is at most the sum of the largest value of each
\* term (all times ten).
C20_ScoreBounded ==
  last.op = "calculatePriorityScore" =>
    LET p == patients[1]
        largest == 10 * ( SEVERITY_CAP("severe") + VULNERABILITY("elderly")
                          + VULNERABILITY("elderly") + VULNERABILITY("pregnant")
                          + VULNERABILITY("disabled") + VULNERABILITY("chronicCondition")
                          + MAX_WAIT_BONUS + ESCALATION(2) + VISIT_TYPE("referral") )
                   + 100 * TRUST_FACTOR_x10
    IN /\ p.age \in 0..120 /\ p.trustScore \in 0..100 /\ p.escalationLevel \in 0..2
       /\ last.ret[1] = calculatePriorityScore(p, now)
       /\ last.ret[1] >= 0
       /\ waitBonus(p, now) <= 10 * MAX_WAIT_BONUS
       /\ last.ret[1] <= largest

\* C20: a patient who has waited 400 minutes holds the capped wait bonus and,
\* every other term being at its largest, the score 210 (times ten).
C20_LongWaitAtCap ==
  /\ last.op = "calculatePriorityScore"
  /\ now - patients[1].arrivalTime = 400
  /\ waitBonus(patients[1], now) = 10 * MAX_WAIT_BONUS
  /\ last.ret = Some(2100)

(***************************************************************************)
(* Scenario A.                                                             *)
(***************************************************************************)
\* C21: in every list getSortedQueue returns, a patient X (severe, 65, no
\* vulnerability flags) stands before every patient Y (mild, 30) registered in
\* the same department at the same arrival time, whatever trust scores
\* registration gave the two.
C21_SevereElderBeforeMildAdult ==
  LET q == last.ret[1]
      isX(p) == /\ p.symptomSeverity = "severe" /\ p.age = 65
                /\ p.vulnerabilities = NoVulnerabilities
      isY(p) == p.symptomSeverity = "mild" /\ p.age = 30
  IN last.op = "getSortedQueue" =>
       \A i, j \in DOMAIN q :
         ( /\ isX(q[i]) /\ isY(q[j])
           /\ q[i].department = q[j].department
           /\ q[i].arrivalTime = q[j].arrivalTime ) => i < j

\* C21, its case: Y was registered first and drew the highest trust score, X
\* the lowest, both in one department at one instant; the department's sorted
\* queue has X in front.
C21_LowTrustXLeadsHighTrustY ==
  LET q == last.ret[1]
  IN /\ last.op = "getSortedQueue"
     /\ last.args = <<Some("general_medicine")>>
     /\ Len(q) = 2
     /\ q[1].id = "u4" /\ q[1].age = 65 /\ q[1].trustScore = 50
     /\ q[2].id = "u2" /\ q[2].age = 30 /\ q[2].trustScore = 90
     /\ q[1].arrivalTime = q[2].arrivalTime

(***************************************************************************)
(* Calling the next patient.                                               *)
(***************************************************************************)
\* C22: when department d has a waiting patient, callNext(d) sets exactly one
\* patient to called: a waiting patient of d that no other waiting patient of
\* d precedes under the comparator.  Every other patient keeps all its fields,
\* and the receipts, the prescriptions and the token counters are unchanged.
C22_CallNextCallsBestWaiting ==
  [][\A d \in DeptInputs :
       LET waiting == {i \in DOMAIN patients :
                         patients[i].department = d /\ patients[i].status = "waiting"}
       IN (callNext(d) /\ waiting # {}) =>
            /\ \E i \in waiting :
                 /\ \A j \in waiting : compare(patients[j], patients[i], now) >= 0
                 /\ Len(patients') = Len(patients)
                 /\ Range(patients') =
                      (Range(patients) \ {patients[i]})
                        \cup {[patients[i] EXCEPT !.status = "called"]}
            /\ receipts' = receipts
            /\ prescriptions' = prescriptions
            /\ tokenCounters' = tokenCounters
    ]_vars

\* C22, its case: Y was registered before X, both wait in one department, and
\* callNext has called X, the later and better ranked, and left Y waiting.
C22_LaterBetterPatientCalled ==
  /\ last.op = "callNext"
  /\ last.toast = "Calling GM-002"
  /\ \E i, j \in DOMAIN patients :
       /\ patients[i].tokenNumber = "GM-002" /\ patients[i].status = "called"
       /\ patients[i].age = 65
       /\ patients[j].tokenNumber = "GM-001" /\ patients[j].status = "waiting"
       /\ patients[j].age = 30

\* C23: callNext(d) on a department with no waiting patient reports that no
\* patients are waiting and changes no patient, receipt, prescription or
\* token counter.
C23_CallNextOnEmptyReports ==
  [][\A d \in DeptInputs :
       LET waiting == {i \in DOMAIN patients :
                         patients[i].department = d /\ patients[i].status = "waiting"}
       IN (callNext(d) /\ waiting = {}) =>
            /\ last'.toast = "No patients waiting in this department"
            /\ patients' = patients
            /\ receipts' = receipts
            /\ prescriptions' = prescriptions
            /\ tokenCounters' = tokenCounters
    ]_vars

\* C23, its case: callNext was called for a department in which nobody waits
\* while a patient waits in another department, and reported it.
C23_NobodyWaitingThere ==
  /\ last.op = "callNext"
  /\ last.args = <<"pediatrics">>
  /\ last.toast = "No patients waiting in this department"
  /\ \E i \in DOMAIN patients : patients[i].status = "waiting"

(***************************************************************************)
(* Failure semantics.                                                      *)
(***************************************************************************)
\* C24: an operation that names a patient, called with an id no patient in the
\* queue carries, reports it (it shows something other than what it shows when
\* it is done) and leaves the patients, the receipts, the prescriptions and
\* the token counters unchanged.
C24_UnknownPatientIsNotFound ==
  [][( \/ \E status \in PatientStatus : updateStatus(UnknownId, status)
       \/ markEmergency(UnknownId)
       \/ resolveEmergency(UnknownId)
       \/ markLateArrival(UnknownId)
       \/ \E level \in EscalationLevel : escalate(UnknownId, level)
       \/ startConsultation(UnknownId)
       \/ completeConsultation(UnknownId, None)
       \/ \E d \in DeptInputs : transferDepartment(UnknownId, d)
       \/ removePatient(UnknownId) ) =>
       /\ last'.toast \notin SuccessToasts \cup {"none"}
       /\ patients' = patients
       /\ receipts' = receipts
       /\ prescriptions' = prescriptions
       /\ tokenCounters' = tokenCounters
    ]_vars

\* C25: after every step each patient's escalationLevel is 0, 1 or 2, and an
\* escalate call with a level outside that set is rejected: it does not show
\* that the priority was escalated and leaves the patients unchanged.
C25_EscalationLevelInRange ==
  [][/\ \A i \in DOMAIN patients' : patients'[i].escalationLevel \in EscalationLevel
     /\ \A id \in PatientIds, level \in LevelInputs \ EscalationLevel :
          escalate(id, level) =>
            /\ patients' = patients
            /\ last'.toast # "Priority escalated"
    ]_vars

(***************************************************************************)
(* Registration.                                                           *)
(***************************************************************************)
\* C26: registerPatient adds exactly one patient and changes no other: the
\* new patient is waiting, has escalationLevel 0, is neither an emergency nor
\* a late arrival, has a trust score within 0..100, carries the fields of the
\* form, and its token is formed from its department's counter after the
\* counter went up by one; no other counter changes.
C26_RegisterAddsOneWaitingPatient ==
  [][\A form \in RegistrationInputs, d \in DeptInputs, v \in TrustVariance :
       (last'.op = "registerPatient" /\ registerPatient(Registration(form, d), v)) =>
         /\ Len(patients') = Len(patients) + 1
         /\ \E i \in DOMAIN patients' :
              LET p == patients'[i]
              IN /\ Range(patients') = Range(patients) \cup {p}
                 /\ \A j \in DOMAIN patients : patients[j].id # p.id
                 /\ p.status = "waiting"
                 /\ p.escalationLevel = 0
                 /\ ~p.isEmergency
                 /\ ~p.isLateArrival
                 /\ p.trustScore \in 0..100
                 /\ p.department = d
                 /\ p.age = form.age /\ p.symptomSeverity = form.symptomSeverity
                 /\ p.tokenNumber = generateTokenNumber(d, tokenCounters'[d])
         /\ tokenCounters' = [tokenCounters EXCEPT ![d] = tokenCounters[d] + 1]
    ]_vars

\* C26, its case: a second patient has registered in a department; the two
\* hold the tokens of counters 1 and 2 and the counter stands at 2.
C26_SecondRegistration ==
  /\ last.op = "registerPatient"
  /\ last.args = <<"pediatrics">>
  /\ tokenCounters["pediatrics"] = 2
  /\ Len(patients) = 2
  /\ {patients[1].tokenNumber, patients[2].tokenNumber} = {"PD-001", "PD-002"}
  /\ patients[1].status = "waiting" /\ patients[2].status = "waiting"

\* C27: the id registerPatient returns is the id of the patient the call
\* added: getPatient of it yields a patient, of the department registered for,
\* that was not in the queue before.
C27_ReturnedIdNamesNewPatient ==
  [][\A form \in RegistrationInputs, d \in DeptInputs, v \in TrustVariance :
       registerPatient(Registration(form, d), v) =>
         /\ last'.ret # None
         /\ getPatient(last'.ret[1]) = None
         /\ (getPatient(last.ret[1]))' # None
         /\ (getPatient(last.ret[1])[1].department)' = d
    ]_vars

(***************************************************************************)
(* Transfer and removal.                                                   *)
(***************************************************************************)
\* C28: transferDepartment(p, d2) on a patient of the queue gives the patient
\* department d2 and the token of d2's prefix and d2's counter after the
\* counter went up by one, and changes no other field of the patient (status,
\* flags, escalation level, trust score, arrival time); the counter of every
\* department other than d2, the one the patient left among them, is
\* unchanged.
C28_TransferIssuesNewToken ==
  [][\A id \in PatientIds \ {UnknownId}, d2 \in DeptInputs :
       (last'.op = "transferDepartment" /\ transferDepartment(id, d2)) =>
         LET p == FindById(patients, id)
             q == FindById(patients', id)
             counter == tokenCounters[d2] + 1
         IN /\ HasId(patients', id)
            /\ q = [p EXCEPT !.department = d2,
                             !.tokenNumber =
                                prefixes(d2) \o "-" \o padStart3(ToString(counter))]
            /\ tokenCounters'[d2] = counter
            /\ \A d \in Department \ {d2} : tokenCounters'[d] = tokenCounters[d]
    ]_vars

\* C28, its case: of two patients registered in general_medicine the first
\* was transferred to pediatrics, and then the second, an escalated emergency:
\* it holds PD-002, is still an escalated emergency, and general_medicine's
\* counter is still 2.
C28_EmergencyTransferred ==
  /\ last.op = "transferDepartment"
  /\ last.args[2] = "pediatrics"
  /\ tokenCounters["general_medicine"] = 2
  /\ tokenCounters["pediatrics"] = 2
  /\ \E i \in DOMAIN patients :
       /\ patients[i].id = last.args[1]
       /\ patients[i].id = "u4"
       /\ patients[i].tokenNumber = "PD-002"
       /\ patients[i].department = "pediatrics"
       /\ patients[i].status = "emergency" /\ patients[i].isEmergency
       /\ patients[i].escalationLevel = 1

\* C29: removePatient(p), once its delete has succeeded, has removed exactly
\* the patient with id p and kept the others in their order, and has left the
\* token counters, the receipts and the prescriptions unchanged, in the
\* provider's state and in the store.
C29_RemoveLeavesTheRest ==
  [][\A i \in DOMAIN calls :
       removePatientDeleted(i, TRUE) =>
         LET keep(p) == p.id # calls[i].patientId
         IN /\ patients' = SelectSeq(patients, keep)
            /\ tokenCounters' = tokenCounters
            /\ receipts' = receipts
            /\ prescriptions' = prescriptions
            /\ store'.token_counters = store.token_counters
            /\ store'.receipts = store.receipts
            /\ store'.prescriptions = store.prescriptions
    ]_vars

(***************************************************************************)
(* Atomicity of registration against the store.                            *)
(***************************************************************************)
\* C30: a registerPatient call that has reported failure has left nothing
\* behind: after every step neither the store nor the provider's state holds
\* the patient of a failed call, and the step in which a call fails changes no
\* token counter, in the provider's state or in the store.
C30_FailedRegistrationLeavesNothing ==
  [][\A i \in DOMAIN calls' :
       calls'[i].pc = "failed" =>
         /\ \A r \in store'.patients : r.id # calls'[i].newPatient.id
         /\ ~HasId(patients', calls'[i].newPatient.id)
         /\ (i \in DOMAIN calls /\ calls[i].pc # "failed") =>
              /\ tokenCounters' = tokenCounters
              /\ store'.token_counters = store.token_counters
    ]_vars

(***************************************************************************)
(* C31: two scanReceipt calls on the same receipt that overlap in time are *)
(* serialized: when the receipt had scanCount 0 as the first call started  *)
(* and both calls are done, the receipt has scanCount 2 and status         *)
(* fulfilled, and exactly one of the two calls raised the fraud alert.     *)
(* The store-backed scanReceipt computes the new count from the receipt of *)
(* the rendered state before its await: two overlapping calls both write   *)
(* scanCount 1, and neither raises the alert.                              *)
(***************************************************************************)
C31_OverlappingScansSerialized ==
  \A i, j \in DOMAIN calls :
    (/\ Len(calls) = 2 /\ i < j
     /\ calls[i].op = "scanReceipt" /\ calls[j].op = "scanReceipt"
     /\ calls[i].pc = "done" /\ calls[j].pc = "done"
     /\ calls[i].receiptId = calls[j].receiptId
     /\ i \in calls[j].overlapped
     /\ calls[i].receipt.scanCount = 0)
    => LET fraud == "FRAUD ALERT: This receipt has already been used!"
           r == FindById(receipts, calls[i].receiptId)
       IN /\ r.scanCount = 2
          /\ r.status = "fulfilled"
          /\ (calls[i].toast = fraud) # (calls[j].toast = fraud)

(***************************************************************************)
(* C34: in the store-backed provider a receipt's scanCount in local state  *)
(* never decreases under scanReceipt and dispenseMedicine: the step in     *)
(* which a dispenseMedicine call dispatches its receipts leaves every      *)
(* receipt with a scanCount at least as large as before.  dispenseMedicine *)
(* dispatches the receipts it read when it started: a scan that finished   *)
(* in between is undone in local state.                                    *)
(***************************************************************************)
C34_DispenseKeepsScanCount ==
  [][(\E i \in DOMAIN calls :
        /\ calls[i].op = "dispenseMedicine"
        /\ calls[i].pc = "receipts"
        /\ calls'[i].pc = "done")
     => \A k \in DOMAIN receipts :
          /\ HasId(receipts', receipts[k].id)
          /\ FindById(receipts', receipts[k].id).scanCount >= receipts[k].scanCount]_vars

(***************************************************************************)
(* C36: in the store-backed provider an operation changes the local state  *)
(* only after its write to the store has succeeded: a step in which the    *)
(* store fails a call's write leaves the local patients, prescriptions,    *)
(* receipts and counters as they were.  dispenseMedicine does not look at  *)
(* the answer to its update of the receipts table: when that write fails   *)
(* the prescription and the receipts are still rewritten in local state.   *)
(***************************************************************************)
C36_FailedWriteLeavesLocalState ==
  [][(\E i \in DOMAIN calls :
        \/ scanReceiptUpdated(i, FALSE)
        \/ dispenseMedicinePrescriptionUpdated(i, FALSE)
        \/ dispenseMedicineReceiptsUpdated(i, FALSE))
     => UNCHANGED <<patients, prescriptions, receipts, tokenCounters>>]_vars

(***************************************************************************)
(* C33: an existing receipt is changed only by scanReceipt: a step of any  *)
(* other operation leaves every receipt in the list with all its fields.   *)
(* DISPENSE_MEDICINE rewrites prescriptionStatus on the receipts of the    *)
(* prescription it dispenses.                                              *)
(***************************************************************************)
C33_OnlyScanChangesReceipts ==
  [][last'.op # "scanReceipt"
     => \A k \in DOMAIN receipts :
          /\ HasId(receipts', receipts[k].id)
          /\ FindById(receipts', receipts[k].id) = receipts[k]]_vars

(***************************************************************************)
(* C32: getEstimatedWait(p) is never negative; for a patient at zero-based *)
(* rank r among the waiting, called and consultation patients of its own   *)
(* department, in the order of that department's sorted queue, it lies     *)
(* between max(0, 10 r - 2) and 10 r + 2 for every jitter value; and it is *)
(* 0 when the patient is unknown or not in that active set.                *)
(***************************************************************************)
C32_EstimatedWaitWithinJitter ==
  last.op = "getEstimatedWait" =>
    LET id == last.args[1]
        wait == last.ret[1]
        isActive(p) == p.status \in {"waiting", "called", "consultation"}
    IN /\ wait >= 0
       /\ ~HasId(patients, id) => wait = 0
       /\ HasId(patients, id) =>
            LET p == FindById(patients, id)
                queue == sortQueueByPriority(patients, Some(p.department), now)
                ahead == {i \in DOMAIN queue :
                            /\ isActive(queue[i])
                            /\ \E k \in DOMAIN queue : k > i /\ queue[k].id = id}
                r == Cardinality(ahead)
            IN IF isActive(p)
               THEN wait >= Max(0, 10 * r - 2) /\ wait <= 10 * r + 2
               ELSE wait = 0

\* C32 witness: the estimate of a patient with one active patient of its
\* department ahead has been computed with the lowest jitter: 8 minutes
C32_SecondInLineAtLowestJitter ==
  /\ last.op = "getEstimatedWait"
  /\ last.ret = Some(8)
  /\ HasId(patients, last.args[1])

(***************************************************************************)
(* C35: createPrescription for an existing patient adds exactly one        *)
(* prescription, sets that patient's prescriptionId to the new id and the  *)
(* patient's diagnosis to the prescription's diagnosis, and leaves the     *)
(* patient's status, its other fields and all other patients unchanged.    *)
(***************************************************************************)
C35_CreatePrescriptionLinksPatient ==
  [][(last' # last /\ last'.op = "createPrescription" /\ HasId(patients, last'.args[1]))
     => LET patientId == last'.args[1]
            id == last'.ret[1]
            created == prescriptions'[Len(prescriptions')]
        IN /\ Len(prescriptions') = Len(prescriptions) + 1
           /\ SubSeq(prescriptions', 1, Len(prescriptions)) = prescriptions
           /\ ~HasId(prescriptions, id)
           /\ created.id = id /\ created.patientId = patientId
           /\ Len(patients') = Len(patients)
           /\ \A k \in DOMAIN patients :
                LET before == patients[k]
                    after == (getPatient(before.id))'
                IN IF before.id = patientId
                   THEN after = Some([before EXCEPT
                                        !.prescriptionId = Some(id),
                                        !.diagnosis = Some(created.diagnosis)])
                   ELSE after = Some(before)]_vars

\* C35 witness: of two patients the one in consultation has been prescribed
\* for; the other waits and carries no prescription
C35_ConsultedPatientPrescribed ==
  /\ last.op = "createPrescription"
  /\ Len(patients) = 2
  /\ \E i, k \in DOMAIN patients :
       /\ patients[i].id = last.args[1]
       /\ patients[i].status = "consultation"
       /\ patients[i].prescriptionId = last.ret
       /\ patients[i].diagnosis = Some("flu")
       /\ patients[k].status = "waiting"
       /\ patients[k].prescriptionId = None

(***************************************************************************)
(* C40: in every reachable state a patient whose status is emergency has   *)
(* isEmergency = true.  updateStatus sets the status it is given and       *)
(* leaves isEmergency alone: called with emergency on a patient that was   *)
(* never marked, it yields status emergency with isEmergency = false.      *)
(***************************************************************************)
C40_EmergencyStatusIsFlagged ==
  \A i \in DOMAIN patients : patients[i].status = "emergency" => patients[i].isEmergency

(***************************************************************************)
(* C37: in the store-backed provider, when two operations on the same      *)
(* patient overlap and both succeed, the local patient record shows the    *)
(* effect of both and equals the record in the store.  Each call           *)
(* dispatches the copy of the patient it made before its await: the call   *)
(* that finishes last overwrites the other's field in local state.         *)
(***************************************************************************)
C37_OverlappingUpdatesBothKept ==
  \A i, j \in DOMAIN calls :
    (/\ Len(calls) = 2 /\ i < j
     /\ calls[i].op = "markLateArrival" /\ calls[j].op = "escalate"
     /\ calls[i].pc = "done" /\ calls[j].pc = "done"
     /\ calls[i].patientId = calls[j].patientId
     /\ i \in calls[j].overlapped)
    => LET p == FindById(patients, calls[i].patientId)
       IN /\ p.isLateArrival
          /\ p.escalationLevel = calls[j].level
          /\ patientToDbPatient(p) \in store.patients

(***************************************************************************)
(* C38: when the doctor's forward-and-complete action has finished (both   *)
(* of its calls are done, nothing is in flight and no reload is            *)
(* outstanding), the new prescription is forwarded and is listed by        *)
(* getForwardedPrescriptions, the patient is completed with prescriptionId *)
(* set, and the minted receipt carries that prescriptionId.  With the      *)
(* store-backed provider createPrescription returns a promise:             *)
(* forwardPrescription is called with the promise and forwards nothing,    *)
(* and completeConsultation mints the receipt from the patient as rendered *)
(* before the prescription existed.                                        *)
(***************************************************************************)
C38_ForwardAndCompleteEndsForwarded ==
  \A i \in DOMAIN calls :
    (/\ Len(calls) = 2 /\ i = 1
     /\ calls[i].op = "createPrescription" /\ calls[i].pc = "done"
     /\ calls[i + 1].op = "completeConsultation" /\ calls[i + 1].pc = "done"
     /\ ~reload.pending /\ reload.snapshot = None)
    => LET id == calls[i].prescription.id
           patient == FindById(patients, calls[i].patientId)
       IN /\ HasId(prescriptions, id)
          /\ FindById(prescriptions, id).status = "forwarded"
          /\ HasId(getForwardedPrescriptions, id)
          /\ patient.status = "completed"
          /\ patient.prescriptionId = Some(id)
          /\ HasId(receipts, calls[i + 1].newReceipt.id)
          /\ FindById(receipts, calls[i + 1].newReceipt.id).prescriptionId = Some(id)

(***************************************************************************)
(* C39: while nothing but callNext happens, each callNext(d) made while    *)
(* patients of d wait reduces the number of waiting patients of d by       *)
(* exactly one and leaves the other departments' waiting patients alone,   *)
(* and repeated calls eventually leave no patient of d waiting.            *)
(***************************************************************************)
C39_CallNextDrainsTheQueue ==
  /\ [][last'.op = "callNext"
        => LET d == last'.args[1]
           IN /\ waitingCount(patients, d) > 0
                   => waitingCount(patients', d) = waitingCount(patients, d) - 1
              /\ \A other \in DeptInputs \ {d} :
                   waitingCount(patients', other) = waitingCount(patients, other)]_vars
  /\ \A d \in DeptInputs : <>[](waitingCount(patients, d) = 0)

\* C39 witness: the second of two waiting patients of a department has been
\* called, and none of that department waits any more
C39_BothWaitingPatientsCalled ==
  /\ last.op = "callNext"
  /\ last.toast # "No patients waiting in this department"
  /\ waitingCount(patients, last.args[1]) = 0
  /\ Cardinality({i \in DOMAIN patients :
                    /\ patients[i].department = last.args[1]
                    /\ patients[i].status = "called"}) = 2

====
